---- MODULE Spec2Model ----
(***************************************************************************)
(* News aggregation pipeline of backend/server.py: the single-feed fetcher, *)
(* the merge (sort + title dedup) of fetch_all_feeds, and the news_cache    *)
(* read and written by GET /news and POST /news/refresh.                    *)
(*                                                                          *)
(* A time is a number m of whole minutes and a number u of microseconds     *)
(* past them, held in one integer m * Micro + u.  The clock moves by whole  *)
(* minutes between two steps, and a task that reads it for an entry reads   *)
(* it one microsecond later than it was read before: u stays far below      *)
(* Micro, so that the order and the differences of two times are those of   *)
(* the clock.  Text is a sequence of one-character strings.  Handlers are   *)
(* asyncio coroutines: a handler runs atomically between two awaits, and    *)
(* the only await of a news handler is the one on fetch_all_feeds(), whose  *)
(* tasks parse their feeds one by one as their endpoints answer, and        *)
(* settle one by one, in any order.                                         *)
(***************************************************************************)
EXTENDS Integers, Sequences, FiniteSets, TLC

VARIABLES
    articles,       \* news_cache["articles"]
    last_updated,   \* news_cache["last_updated"], None until the first pass ends
    now,            \* datetime.now(timezone.utc) at its last reading
    pc,             \* pc[r]: where request handler r is
    req,            \* req[r]: the request handler r is serving
    results,        \* results[r][s]: the task of source s in the pass of request r
    gathered,       \* history: the tasks of the pass whose merge was stored last
    response,       \* what the last step answered to its client, if it answered
    order           \* history: order[r], the sources of the pass of request r in
                    \* the order in which their tasks settled, until a pass starts

vars == <<articles, last_updated, now, pc, req, results, gathered, response, order>>

-----------------------------------------------------------------------------
(* Bounds of the model *)

NumSources == 2      \* feeds of NEWS_FEEDS that are configured
NumRequests == 2     \* request handlers that can be active at the same time
MaxEntries == 2      \* longest feed payload drawn for an aggregation pass
MaxTime == 61        \* the clock stops at this minute
MaxLimit == 1        \* largest limit of a query, the default limit apart

(* Program constants *)

CacheDurationMinutes == 60   \* news_cache["cache_duration"] = timedelta(hours=1)
Micro == 1000000             \* isoformat() prints the microseconds in six digits
EntryLimit == 10             \* feed.entries[:10]
TitleKeyLen == 50            \* article['title'].lower()[:50]

None == -1                   \* last_updated before the first pass ends

\* what gather(return_exceptions=True) holds for one task
Pending == [state |-> "pending", value |-> << >>]     \* not settled yet
Raised == [state |-> "raised", value |-> << >>]
Returned(list) == [state |-> "returned", value |-> list]

Min(a, b) == IF a <= b THEN a ELSE b

\* the time of minute m
Minutes(m) == m * Micro

\* timedelta(hours=1)
CacheDuration == Minutes(CacheDurationMinutes)

-----------------------------------------------------------------------------
(* Feed source registry *)

NEWS_FEEDS == <<
    [name |-> "TCS Elektromobilitaet", lang |-> "de", region |-> "CH", group |-> "swiss"],
    [name |-> "Blick Auto",        lang |-> "de", region |-> "CH", group |-> "swiss"],
    [name |-> "Electrive.net",     lang |-> "de", region |-> "DE", group |-> "german"],
    [name |-> "Ecomento",          lang |-> "de", region |-> "DE", group |-> "german"],
    [name |-> "Elektroauto-News",  lang |-> "de", region |-> "DE", group |-> "german"],
    [name |-> "Teslamag",          lang |-> "de", region |-> "DE", group |-> "german"],
    [name |-> "Golem Auto",        lang |-> "de", region |-> "DE", group |-> "german"],
    [name |-> "Electrek",          lang |-> "en", region |-> "US", group |-> "international"],
    [name |-> "InsideEVs",         lang |-> "en", region |-> "US", group |-> "international"],
    [name |-> "CleanTechnica",     lang |-> "en", region |-> "US", group |-> "international"],
    [name |-> "Green Car Reports", lang |-> "en", region |-> "US", group |-> "international"],
    [name |-> "Charged EVs",       lang |-> "en", region |-> "US", group |-> "international"],
    [name |-> "Netokracija RS",    lang |-> "sr", region |-> "RS", group |-> "balkan"],
    [name |-> "Netokracija HR",    lang |-> "hr", region |-> "HR", group |-> "balkan"],
    [name |-> "Automarket HR",     lang |-> "hr", region |-> "HR", group |-> "balkan"],
    [name |-> "Automobili HR",     lang |-> "hr", region |-> "HR", group |-> "balkan"] >>

\* the feeds configured first: one of every region group before a second one
Priority == <<"TCS Elektromobilitaet", "Electrek", "Netokracija RS", "Electrive.net",
              "Blick Auto", "InsideEVs", "Netokracija HR", "Ecomento">>
Configured == {Priority[i] : i \in 1..Min(NumSources, Len(Priority))}

\* all_feeds of fetch_all_feeds: the configured feeds, in registry order
all_feeds == SelectSeq(NEWS_FEEDS, LAMBDA feed : feed.name \in Configured)

Sources == 1..Len(all_feeds)

Requests == 1..NumRequests

-----------------------------------------------------------------------------
(* Text: a sequence of characters.  A printable ASCII character is written
   as itself, tab, line feed, form feed and carriage return as "\t", "\n",
   "\f" and "\r", and every other character, and the backquote, as its code
   point in hexadecimal, "U+00D6" *)

\* chr(32) .. chr(126)
Ascii == <<
    " ", "!", "\"", "#", "$", "%", "&", "'", "(", ")", "*", "+", ",", "-", ".", "/",
    "0", "1", "2", "3", "4", "5", "6", "7", "8", "9", ":", ";", "<", "=", ">", "?",
    "@", "A", "B", "C", "D", "E", "F", "G", "H", "I", "J", "K", "L", "M", "N", "O",
    "P", "Q", "R", "S", "T", "U", "V", "W", "X", "Y", "Z", "[", "\\", "]", "^", "_",
    "U+0060", "a", "b", "c", "d", "e", "f", "g", "h", "i", "j", "k", "l", "m", "n", "o",
    "p", "q", "r", "s", "t", "u", "v", "w", "x", "y", "z", "{", "|", "}", "~" >>

HexUpper == <<"0","1","2","3","4","5","6","7","8","9","A","B","C","D","E","F">>

RECURSIVE HexOf(_, _)
HexOf(n, width) ==
    IF width <= 0 /\ n = 0 THEN ""
    ELSE HexOf(n \div 16, width - 1) \o HexUpper[(n % 16) + 1]

\* chr(n), in the notation of the model
Chr(n) ==
    IF n \in 32..126 THEN Ascii[n - 31]
    ELSE CASE n = 9  -> "\t"
           [] n = 10 -> "\n"
           [] n = 12 -> "\f"
           [] n = 13 -> "\r"
           [] OTHER  -> "U+" \o HexOf(n, 4)

\* the characters of the codes lo, lo + step .. hi
Chars(lo, hi, step) == {Chr(n) : n \in {m \in lo..hi : (m - lo) % step = 0}}

\* str.lower() of the Unicode database of the interpreter: <<lo, hi, step,
\* delta>> stands for chr(n).lower() = chr(n + delta) for n = lo, lo + step
\* .. hi; the two characters whose lowercase is no single fixed character,
\* U+0130 and U+03A3, are not in the table
LowerRuns == <<
    <<65,90,1,32>>, <<192,214,1,32>>, <<216,222,1,32>>, <<256,302,2,1>>, <<306,310,2,1>>,
    <<313,327,2,1>>, <<330,374,2,1>>, <<376,376,1,-121>>, <<377,381,2,1>>, <<385,385,1,210>>,
    <<386,388,2,1>>, <<390,390,1,206>>, <<391,391,1,1>>, <<393,394,1,205>>, <<395,395,1,1>>,
    <<398,398,1,79>>, <<399,399,1,202>>, <<400,400,1,203>>, <<401,401,1,1>>, <<403,403,1,205>>,
    <<404,404,1,207>>, <<406,406,1,211>>, <<407,407,1,209>>, <<408,408,1,1>>, <<412,412,1,211>>,
    <<413,413,1,213>>, <<415,415,1,214>>, <<416,420,2,1>>, <<422,422,1,218>>, <<423,423,1,1>>,
    <<425,425,1,218>>, <<428,428,1,1>>, <<430,430,1,218>>, <<431,431,1,1>>, <<433,434,1,217>>,
    <<435,437,2,1>>, <<439,439,1,219>>, <<440,440,1,1>>, <<444,444,1,1>>, <<452,452,1,2>>,
    <<453,453,1,1>>, <<455,455,1,2>>, <<456,456,1,1>>, <<458,458,1,2>>, <<459,475,2,1>>,
    <<478,494,2,1>>, <<497,497,1,2>>, <<498,500,2,1>>, <<502,502,1,-97>>, <<503,503,1,-56>>,
    <<504,542,2,1>>, <<544,544,1,-130>>, <<546,562,2,1>>, <<570,570,1,10795>>, <<571,571,1,1>>,
    <<573,573,1,-163>>, <<574,574,1,10792>>, <<577,577,1,1>>, <<579,579,1,-195>>, <<580,580,1,69>>,
    <<581,581,1,71>>, <<582,590,2,1>>, <<880,882,2,1>>, <<886,886,1,1>>, <<895,895,1,116>>,
    <<902,902,1,38>>, <<904,906,1,37>>, <<908,908,1,64>>, <<910,911,1,63>>, <<913,929,1,32>>,
    <<932,939,1,32>>, <<975,975,1,8>>, <<984,1006,2,1>>, <<1012,1012,1,-60>>, <<1015,1015,1,1>>,
    <<1017,1017,1,-7>>, <<1018,1018,1,1>>, <<1021,1023,1,-130>>, <<1024,1039,1,80>>, <<1040,1071,1,32>>,
    <<1120,1152,2,1>>, <<1162,1214,2,1>>, <<1216,1216,1,15>>, <<1217,1229,2,1>>, <<1232,1326,2,1>>,
    <<1329,1366,1,48>>, <<4256,4293,1,7264>>, <<4295,4295,1,7264>>, <<4301,4301,1,7264>>, <<5024,5103,1,38864>>,
    <<5104,5109,1,8>>, <<7312,7354,1,-3008>>, <<7357,7359,1,-3008>>, <<7680,7828,2,1>>, <<7838,7838,1,-7615>>,
    <<7840,7934,2,1>>, <<7944,7951,1,-8>>, <<7960,7965,1,-8>>, <<7976,7983,1,-8>>, <<7992,7999,1,-8>>,
    <<8008,8013,1,-8>>, <<8025,8031,2,-8>>, <<8040,8047,1,-8>>, <<8072,8079,1,-8>>, <<8088,8095,1,-8>>,
    <<8104,8111,1,-8>>, <<8120,8121,1,-8>>, <<8122,8123,1,-74>>, <<8124,8124,1,-9>>, <<8136,8139,1,-86>>,
    <<8140,8140,1,-9>>, <<8152,8153,1,-8>>, <<8154,8155,1,-100>>, <<8168,8169,1,-8>>, <<8170,8171,1,-112>>,
    <<8172,8172,1,-7>>, <<8184,8185,1,-128>>, <<8186,8187,1,-126>>, <<8188,8188,1,-9>>, <<8486,8486,1,-7517>>,
    <<8490,8490,1,-8383>>, <<8491,8491,1,-8262>>, <<8498,8498,1,28>>, <<8544,8559,1,16>>, <<8579,8579,1,1>>,
    <<9398,9423,1,26>>, <<11264,11311,1,48>>, <<11360,11360,1,1>>, <<11362,11362,1,-10743>>, <<11363,11363,1,-3814>>,
    <<11364,11364,1,-10727>>, <<11367,11371,2,1>>, <<11373,11373,1,-10780>>, <<11374,11374,1,-10749>>, <<11375,11375,1,-10783>>,
    <<11376,11376,1,-10782>>, <<11378,11378,1,1>>, <<11381,11381,1,1>>, <<11390,11391,1,-10815>>, <<11392,11490,2,1>>,
    <<11499,11501,2,1>>, <<11506,11506,1,1>>, <<42560,42604,2,1>>, <<42624,42650,2,1>>, <<42786,42798,2,1>>,
    <<42802,42862,2,1>>, <<42873,42875,2,1>>, <<42877,42877,1,-35332>>, <<42878,42886,2,1>>, <<42891,42891,1,1>>,
    <<42893,42893,1,-42280>>, <<42896,42898,2,1>>, <<42902,42920,2,1>>, <<42922,42922,1,-42308>>, <<42923,42923,1,-42319>>,
    <<42924,42924,1,-42315>>, <<42925,42925,1,-42305>>, <<42926,42926,1,-42308>>, <<42928,42928,1,-42258>>, <<42929,42929,1,-42282>>,
    <<42930,42930,1,-42261>>, <<42931,42931,1,928>>, <<42932,42946,2,1>>, <<42948,42948,1,-48>>, <<42949,42949,1,-42307>>,
    <<42950,42950,1,-35384>>, <<42951,42953,2,1>>, <<42960,42960,1,1>>, <<42966,42968,2,1>>, <<42997,42997,1,1>>,
    <<65313,65338,1,32>>, <<66560,66599,1,40>>, <<66736,66771,1,40>>, <<66928,66964,2,39>>, <<66929,66937,2,39>>,
    <<66941,66953,2,39>>, <<66957,66961,2,39>>, <<66965,66965,1,39>>, <<68736,68786,1,64>>, <<71840,71871,1,32>>,
    <<93760,93791,1,32>>, <<125184,125217,1,34>> >>

LowerPairs ==
    UNION {{<<Chr(n), Chr(n + run[4])>> :
               n \in {m \in run[1]..run[2] : (m - run[1]) % run[3] = 0}} :
           run \in {LowerRuns[k] : k \in DOMAIN LowerRuns}}

UpperSet == {p[1] : p \in LowerPairs}
LowerTable == [c \in UpperSet |-> (CHOOSE p \in LowerPairs : p[1] = c)[2]]

CapitalIDotAbove == "U+0130"     \* lowercases to "i" and U+0307
CapitalSigma == "U+03A3"         \* lowercases to U+03C2 at the end of a word
SpecialUpper == {CapitalIDotAbove, CapitalSigma}

\* the cased characters and the case-ignorable characters of the final-sigma
\* rule, as runs <<lo, hi>> of codes
CasedRuns == <<
    <<65,90>>, <<97,122>>, <<170,170>>, <<181,181>>, <<186,186>>, <<192,214>>,
    <<216,246>>, <<248,442>>, <<444,447>>, <<452,659>>, <<661,687>>, <<880,883>>,
    <<886,887>>, <<891,893>>, <<895,895>>, <<902,902>>, <<904,906>>, <<908,908>>,
    <<910,929>>, <<931,1013>>, <<1015,1153>>, <<1162,1327>>, <<1329,1366>>, <<1376,1416>>,
    <<4256,4293>>, <<4295,4295>>, <<4301,4301>>, <<4304,4346>>, <<4349,4351>>, <<5024,5109>>,
    <<5112,5117>>, <<7296,7304>>, <<7312,7354>>, <<7357,7359>>, <<7424,7467>>, <<7531,7543>>,
    <<7545,7578>>, <<7680,7957>>, <<7960,7965>>, <<7968,8005>>, <<8008,8013>>, <<8016,8023>>,
    <<8025,8025>>, <<8027,8027>>, <<8029,8029>>, <<8031,8061>>, <<8064,8116>>, <<8118,8124>>,
    <<8126,8126>>, <<8130,8132>>, <<8134,8140>>, <<8144,8147>>, <<8150,8155>>, <<8160,8172>>,
    <<8178,8180>>, <<8182,8188>>, <<8450,8450>>, <<8455,8455>>, <<8458,8467>>, <<8469,8469>>,
    <<8473,8477>>, <<8484,8484>>, <<8486,8486>>, <<8488,8488>>, <<8490,8493>>, <<8495,8500>>,
    <<8505,8505>>, <<8508,8511>>, <<8517,8521>>, <<8526,8526>>, <<8544,8575>>, <<8579,8580>>,
    <<9398,9449>>, <<11264,11387>>, <<11390,11492>>, <<11499,11502>>, <<11506,11507>>, <<11520,11557>>,
    <<11559,11559>>, <<11565,11565>>, <<42560,42605>>, <<42624,42651>>, <<42786,42863>>, <<42865,42887>>,
    <<42891,42894>>, <<42896,42954>>, <<42960,42961>>, <<42963,42963>>, <<42965,42969>>, <<42997,42998>>,
    <<43002,43002>>, <<43824,43866>>, <<43872,43880>>, <<43888,43967>>, <<64256,64262>>, <<64275,64279>>,
    <<65313,65338>>, <<65345,65370>>, <<66560,66639>>, <<66736,66771>>, <<66776,66811>>, <<66928,66938>>,
    <<66940,66954>>, <<66956,66962>>, <<66964,66965>>, <<66967,66977>>, <<66979,66993>>, <<66995,67001>>,
    <<67003,67004>>, <<68736,68786>>, <<68800,68850>>, <<71840,71903>>, <<93760,93823>>, <<119808,119892>>,
    <<119894,119964>>, <<119966,119967>>, <<119970,119970>>, <<119973,119974>>, <<119977,119980>>, <<119982,119993>>,
    <<119995,119995>>, <<119997,120003>>, <<120005,120069>>, <<120071,120074>>, <<120077,120084>>, <<120086,120092>>,
    <<120094,120121>>, <<120123,120126>>, <<120128,120132>>, <<120134,120134>>, <<120138,120144>>, <<120146,120485>>,
    <<120488,120512>>, <<120514,120538>>, <<120540,120570>>, <<120572,120596>>, <<120598,120628>>, <<120630,120654>>,
    <<120656,120686>>, <<120688,120712>>, <<120714,120744>>, <<120746,120770>>, <<120772,120779>>, <<122624,122633>>,
    <<122635,122654>>, <<125184,125251>>, <<127280,127305>>, <<127312,127337>>, <<127344,127369>> >>
CaseIgnorableRuns == <<
    <<39,39>>, <<46,46>>, <<58,58>>, <<94,94>>, <<96,96>>, <<168,168>>,
    <<173,173>>, <<175,175>>, <<180,180>>, <<183,184>>, <<688,879>>, <<884,885>>,
    <<890,890>>, <<900,901>>, <<903,903>>, <<1155,1161>>, <<1369,1369>>, <<1375,1375>>,
    <<1425,1469>>, <<1471,1471>>, <<1473,1474>>, <<1476,1477>>, <<1479,1479>>, <<1524,1524>>,
    <<1536,1541>>, <<1552,1562>>, <<1564,1564>>, <<1600,1600>>, <<1611,1631>>, <<1648,1648>>,
    <<1750,1757>>, <<1759,1768>>, <<1770,1773>>, <<1807,1807>>, <<1809,1809>>, <<1840,1866>>,
    <<1958,1968>>, <<2027,2037>>, <<2042,2042>>, <<2045,2045>>, <<2070,2093>>, <<2137,2139>>,
    <<2184,2184>>, <<2192,2193>>, <<2200,2207>>, <<2249,2306>>, <<2362,2362>>, <<2364,2364>>,
    <<2369,2376>>, <<2381,2381>>, <<2385,2391>>, <<2402,2403>>, <<2417,2417>>, <<2433,2433>>,
    <<2492,2492>>, <<2497,2500>>, <<2509,2509>>, <<2530,2531>>, <<2558,2558>>, <<2561,2562>>,
    <<2620,2620>>, <<2625,2626>>, <<2631,2632>>, <<2635,2637>>, <<2641,2641>>, <<2672,2673>>,
    <<2677,2677>>, <<2689,2690>>, <<2748,2748>>, <<2753,2757>>, <<2759,2760>>, <<2765,2765>>,
    <<2786,2787>>, <<2810,2815>>, <<2817,2817>>, <<2876,2876>>, <<2879,2879>>, <<2881,2884>>,
    <<2893,2893>>, <<2901,2902>>, <<2914,2915>>, <<2946,2946>>, <<3008,3008>>, <<3021,3021>>,
    <<3072,3072>>, <<3076,3076>>, <<3132,3132>>, <<3134,3136>>, <<3142,3144>>, <<3146,3149>>,
    <<3157,3158>>, <<3170,3171>>, <<3201,3201>>, <<3260,3260>>, <<3263,3263>>, <<3270,3270>>,
    <<3276,3277>>, <<3298,3299>>, <<3328,3329>>, <<3387,3388>>, <<3393,3396>>, <<3405,3405>>,
    <<3426,3427>>, <<3457,3457>>, <<3530,3530>>, <<3538,3540>>, <<3542,3542>>, <<3633,3633>>,
    <<3636,3642>>, <<3654,3662>>, <<3761,3761>>, <<3764,3772>>, <<3782,3782>>, <<3784,3789>>,
    <<3864,3865>>, <<3893,3893>>, <<3895,3895>>, <<3897,3897>>, <<3953,3966>>, <<3968,3972>>,
    <<3974,3975>>, <<3981,3991>>, <<3993,4028>>, <<4038,4038>>, <<4141,4144>>, <<4146,4151>>,
    <<4153,4154>>, <<4157,4158>>, <<4184,4185>>, <<4190,4192>>, <<4209,4212>>, <<4226,4226>>,
    <<4229,4230>>, <<4237,4237>>, <<4253,4253>>, <<4348,4348>>, <<4957,4959>>, <<5906,5908>>,
    <<5938,5939>>, <<5970,5971>>, <<6002,6003>>, <<6068,6069>>, <<6071,6077>>, <<6086,6086>>,
    <<6089,6099>>, <<6103,6103>>, <<6109,6109>>, <<6155,6159>>, <<6211,6211>>, <<6277,6278>>,
    <<6313,6313>>, <<6432,6434>>, <<6439,6440>>, <<6450,6450>>, <<6457,6459>>, <<6679,6680>>,
    <<6683,6683>>, <<6742,6742>>, <<6744,6750>>, <<6752,6752>>, <<6754,6754>>, <<6757,6764>>,
    <<6771,6780>>, <<6783,6783>>, <<6823,6823>>, <<6832,6862>>, <<6912,6915>>, <<6964,6964>>,
    <<6966,6970>>, <<6972,6972>>, <<6978,6978>>, <<7019,7027>>, <<7040,7041>>, <<7074,7077>>,
    <<7080,7081>>, <<7083,7085>>, <<7142,7142>>, <<7144,7145>>, <<7149,7149>>, <<7151,7153>>,
    <<7212,7219>>, <<7222,7223>>, <<7288,7293>>, <<7376,7378>>, <<7380,7392>>, <<7394,7400>>,
    <<7405,7405>>, <<7412,7412>>, <<7416,7417>>, <<7468,7530>>, <<7544,7544>>, <<7579,7679>>,
    <<8125,8125>>, <<8127,8129>>, <<8141,8143>>, <<8157,8159>>, <<8173,8175>>, <<8189,8190>>,
    <<8203,8207>>, <<8216,8217>>, <<8228,8228>>, <<8231,8231>>, <<8234,8238>>, <<8288,8292>>,
    <<8294,8303>>, <<8305,8305>>, <<8319,8319>>, <<8336,8348>>, <<8400,8432>>, <<11388,11389>>,
    <<11503,11505>>, <<11631,11631>>, <<11647,11647>>, <<11744,11775>>, <<11823,11823>>, <<12293,12293>>,
    <<12330,12333>>, <<12337,12341>>, <<12347,12347>>, <<12441,12446>>, <<12540,12542>>, <<40981,40981>>,
    <<42232,42237>>, <<42508,42508>>, <<42607,42610>>, <<42612,42621>>, <<42623,42623>>, <<42652,42655>>,
    <<42736,42737>>, <<42752,42785>>, <<42864,42864>>, <<42888,42890>>, <<42994,42996>>, <<43000,43001>>,
    <<43010,43010>>, <<43014,43014>>, <<43019,43019>>, <<43045,43046>>, <<43052,43052>>, <<43204,43205>>,
    <<43232,43249>>, <<43263,43263>>, <<43302,43309>>, <<43335,43345>>, <<43392,43394>>, <<43443,43443>>,
    <<43446,43449>>, <<43452,43453>>, <<43471,43471>>, <<43493,43494>>, <<43561,43566>>, <<43569,43570>>,
    <<43573,43574>>, <<43587,43587>>, <<43596,43596>>, <<43632,43632>>, <<43644,43644>>, <<43696,43696>>,
    <<43698,43700>>, <<43703,43704>>, <<43710,43711>>, <<43713,43713>>, <<43741,43741>>, <<43756,43757>>,
    <<43763,43764>>, <<43766,43766>>, <<43867,43871>>, <<43881,43883>>, <<44005,44005>>, <<44008,44008>>,
    <<44013,44013>>, <<64286,64286>>, <<64434,64450>>, <<65024,65039>>, <<65043,65043>>, <<65056,65071>>,
    <<65106,65106>>, <<65109,65109>>, <<65279,65279>>, <<65287,65287>>, <<65294,65294>>, <<65306,65306>>,
    <<65342,65342>>, <<65344,65344>>, <<65392,65392>>, <<65438,65439>>, <<65507,65507>>, <<65529,65531>>,
    <<66045,66045>>, <<66272,66272>>, <<66422,66426>>, <<67456,67461>>, <<67463,67504>>, <<67506,67514>>,
    <<68097,68099>>, <<68101,68102>>, <<68108,68111>>, <<68152,68154>>, <<68159,68159>>, <<68325,68326>>,
    <<68900,68903>>, <<69291,69292>>, <<69446,69456>>, <<69506,69509>>, <<69633,69633>>, <<69688,69702>>,
    <<69744,69744>>, <<69747,69748>>, <<69759,69761>>, <<69811,69814>>, <<69817,69818>>, <<69821,69821>>,
    <<69826,69826>>, <<69837,69837>>, <<69888,69890>>, <<69927,69931>>, <<69933,69940>>, <<70003,70003>>,
    <<70016,70017>>, <<70070,70078>>, <<70089,70092>>, <<70095,70095>>, <<70191,70193>>, <<70196,70196>>,
    <<70198,70199>>, <<70206,70206>>, <<70367,70367>>, <<70371,70378>>, <<70400,70401>>, <<70459,70460>>,
    <<70464,70464>>, <<70502,70508>>, <<70512,70516>>, <<70712,70719>>, <<70722,70724>>, <<70726,70726>>,
    <<70750,70750>>, <<70835,70840>>, <<70842,70842>>, <<70847,70848>>, <<70850,70851>>, <<71090,71093>>,
    <<71100,71101>>, <<71103,71104>>, <<71132,71133>>, <<71219,71226>>, <<71229,71229>>, <<71231,71232>>,
    <<71339,71339>>, <<71341,71341>>, <<71344,71349>>, <<71351,71351>>, <<71453,71455>>, <<71458,71461>>,
    <<71463,71467>>, <<71727,71735>>, <<71737,71738>>, <<71995,71996>>, <<71998,71998>>, <<72003,72003>>,
    <<72148,72151>>, <<72154,72155>>, <<72160,72160>>, <<72193,72202>>, <<72243,72248>>, <<72251,72254>>,
    <<72263,72263>>, <<72273,72278>>, <<72281,72283>>, <<72330,72342>>, <<72344,72345>>, <<72752,72758>>,
    <<72760,72765>>, <<72767,72767>>, <<72850,72871>>, <<72874,72880>>, <<72882,72883>>, <<72885,72886>>,
    <<73009,73014>>, <<73018,73018>>, <<73020,73021>>, <<73023,73029>>, <<73031,73031>>, <<73104,73105>>,
    <<73109,73109>>, <<73111,73111>>, <<73459,73460>>, <<78896,78904>>, <<92912,92916>>, <<92976,92982>>,
    <<92992,92995>>, <<94031,94031>>, <<94095,94111>>, <<94176,94177>>, <<94179,94180>>, <<110576,110579>>,
    <<110581,110587>>, <<110589,110590>>, <<113821,113822>>, <<113824,113827>>, <<118528,118573>>, <<118576,118598>>,
    <<119143,119145>>, <<119155,119170>>, <<119173,119179>>, <<119210,119213>>, <<119362,119364>>, <<121344,121398>>,
    <<121403,121452>>, <<121461,121461>>, <<121476,121476>>, <<121499,121503>>, <<121505,121519>>, <<122880,122886>>,
    <<122888,122904>>, <<122907,122913>>, <<122915,122916>>, <<122918,122922>>, <<123184,123197>>, <<123566,123566>>,
    <<123628,123631>>, <<125136,125142>>, <<125252,125259>>, <<127995,127999>>, <<917505,917505>>, <<917536,917631>>,
    <<917760,917999>> >>

Cased ==
    UNION {Chars(run[1], run[2], 1) : run \in {CasedRuns[k] : k \in DOMAIN CasedRuns}}
CaseIgnorable ==
    UNION {Chars(run[1], run[2], 1) :
           run \in {CaseIgnorableRuns[k] : k \in DOMAIN CaseIgnorableRuns}}

\* text[i] is a capital sigma at the end of a word: a cased character comes
\* before it and none after it, case-ignorable characters skipped
FinalSigma(text, i) ==
    LET final(before, after) ==
            /\ before # {}
            /\ text[CHOOSE j \in before : \A k \in before : k <= j] \in Cased
            /\ \/ after = {}
               \/ text[CHOOSE j \in after : \A k \in after : j <= k] \notin Cased
    IN final({j \in 1..(i - 1) : text[j] \notin CaseIgnorable},
             {j \in (i + 1)..Len(text) : text[j] \notin CaseIgnorable})

\* the lowercase of text[i]: one character, or two for U+0130
LowerAt(text, i) ==
    LET c == text[i]
    IN IF c = CapitalIDotAbove THEN <<"i", "U+0307">>
       ELSE IF c = CapitalSigma
            THEN IF FinalSigma(text, i) THEN <<"U+03C2">> ELSE <<"U+03C3">>
       ELSE IF c \in UpperSet THEN <<LowerTable[c]>>
       ELSE <<c>>

\* str.lower() of the one-character string c
LowerChar(c) == LowerAt(<<c>>, 1)

\* the lowercase of text[from..], given the indexes of its special characters
RECURSIVE LowerFrom(_, _, _)
LowerFrom(text, from, special) ==
    LET plain(a, b) == [k \in 1..(b - a + 1) |->
                           IF text[a + k - 1] \in UpperSet
                           THEN LowerTable[text[a + k - 1]] ELSE text[a + k - 1]]
        i == CHOOSE j \in special : \A k \in special : j <= k
    IN IF special = {} THEN plain(from, Len(text))
       ELSE plain(from, i - 1) \o LowerAt(text, i) \o LowerFrom(text, i + 1, special \ {i})

\* str.lower()
Lower(text) ==
    LowerFrom(text, 1, {i \in 1..Len(text) : text[i] \in SpecialUpper})

\* text[:n]
Prefix(text, n) == SubSeq(text, 1, Min(n, Len(text)))

\* title_key = article['title'].lower()[:50]
TitleKey(article) == Prefix(Lower(article.title), TitleKeyLen)

\* the characters of a timestamp, in the order of their code points
IsoChars == <<"+", ".", "0", "1", "2", "3", "4", "5", "6", "7", "8", "9", ":">>
Ord == [c \in {IsoChars[i] : i \in 1..Len(IsoChars)} |->
           CHOOSE i \in 1..Len(IsoChars) : IsoChars[i] = c]

\* the n decimal digits of v, zero-padded
Decimal(v, n) ==
    LET power[k \in 0..n] == IF k = 0 THEN 1 ELSE 10 * power[k - 1]
    IN [k \in 1..n |-> IsoChars[((v \div power[n - k]) % 10) + 3]]

\* the offset of timezone.utc
UtcOffset == <<"+", "0", "0", ":", "0", "0">>

\* datetime.isoformat() of an aware time: fixed-width, zero-padded decimal
\* fields (of which the model writes the minutes), a fraction of six digits
\* unless the microseconds are zero, and the offset
IsoFormat(t) ==
    Decimal(t \div Micro, 3)
        \o (IF t % Micro = 0 THEN << >> ELSE <<".">> \o Decimal(t % Micro, 6))
        \o UtcOffset

\* str < str: lexicographic by code point, a proper prefix is smaller
RECURSIVE StrLess(_, _)
StrLess(a, b) ==
    IF b = << >> THEN FALSE
    ELSE IF a = << >> THEN TRUE
    ELSE IF Head(a) # Head(b) THEN Ord[Head(a)] < Ord[Head(b)]
    ELSE StrLess(Tail(a), Tail(b))

\* generate_article_id: hashlib.md5(url.encode()).hexdigest()[:12]
SurrogateLink == "https://x.io/\\ud800"     \* str.encode() raises on it
IdLen == 12                  \* hexdigest()[:12]
HexDigits == {"0","1","2","3","4","5","6","7","8","9","a","b","c","d","e","f"}

\* hashlib.md5(url.encode()).hexdigest() of the links the endpoints publish
Md5Hex(url) ==
    CASE url = "https://a.ch/1" ->
           <<"3","c","0","1","c","a","1","e","0","9","a","8","5","5","7","6","8","5","6","b","0","4","5","6","f","1","8","a","b","2","7","5">>
      [] url = "https://b.de/2" ->
           <<"2","2","b","c","7","b","0","5","0","d","4","f","d","a","5","5","6","c","f","d","9","c","5","c","c","1","f","3","a","5","d","8">>
      [] url = "https://c.us/3" ->
           <<"c","b","c","3","5","2","2","d","7","9","f","c","7","d","0","9","1","5","b","9","e","e","b","1","6","1","1","6","7","b","2","3">>
      [] url = "" ->
           <<"d","4","1","d","8","c","d","9","8","f","0","0","b","2","0","4","e","9","8","0","0","9","9","8","e","c","f","8","4","2","7","e">>

\* an identifier that keeps the whole digest
ArticleIdOfDigest(url) == Md5Hex(url)

ArticleIdOf(url) == Prefix(Md5Hex(url), IdLen)

-----------------------------------------------------------------------------
(* Article normalizer *)

CleanLimit == 500            \* clean[:500] + "..." if len(clean) > 500

\* the characters \s matches in a str pattern
Whitespace ==
    {Chr(n) : n \in {9, 10, 11, 12, 13, 28, 29, 30, 31, 32, 133, 160, 5760}
                       \cup (8192..8202) \cup {8232, 8233, 8239, 8287, 12288}}

\* text[i] = "<": the index of the ">" that ends the match of <[^>]+> starting
\* at i, or 0 when the pattern does not match there ("<>", or no ">" follows)
TagEnd(text, i) ==
    LET closers == {j \in (i + 1)..Len(text) : text[j] = ">"}
        first == CHOOSE j \in closers : \A k \in closers : j <= k
    IN IF closers = {} THEN 0 ELSE IF first >= i + 2 THEN first ELSE 0

\* the indexes the matches of <[^>]+> cover, scanning from i, leftmost first
RECURSIVE TagIndexes(_, _)
TagIndexes(text, i) ==
    LET starts == {j \in i..Len(text) : text[j] = "<" /\ TagEnd(text, j) > 0}
        first == CHOOSE j \in starts : \A k \in starts : j <= k
    IN IF starts = {} THEN {}
       ELSE (first..TagEnd(text, first)) \cup TagIndexes(text, TagEnd(text, first) + 1)

\* text without the characters at the indexes in drop
Without(text, drop) ==
    LET indexed == [i \in 1..Len(text) |-> <<i, text[i]>>]
        kept == SelectSeq(indexed, LAMBDA p : p[1] \notin drop)
    IN [k \in 1..Len(kept) |-> kept[k][2]]

\* re.sub(r'<[^>]+>', '', text)
StripTags(text) == Without(text, TagIndexes(text, 1))

\* html.unescape: the character references &#N; &#xH; and &name; of the text
\* are replaced, as the HTML 5 standard resolves them

\* html._invalid_charrefs: numeric references that stand for another character
InvalidCharrefs == <<
    <<0,65533>>, <<13,13>>, <<128,8364>>, <<129,129>>, <<130,8218>>, <<131,402>>, <<132,8222>>, <<133,8230>>,
    <<134,8224>>, <<135,8225>>, <<136,710>>, <<137,8240>>, <<138,352>>, <<139,8249>>, <<140,338>>, <<141,141>>,
    <<142,381>>, <<143,143>>, <<144,144>>, <<145,8216>>, <<146,8217>>, <<147,8220>>, <<148,8221>>, <<149,8226>>,
    <<150,8211>>, <<151,8212>>, <<152,732>>, <<153,8482>>, <<154,353>>, <<155,8250>>, <<156,339>>, <<157,157>>,
    <<158,382>>, <<159,376>> >>
\* html._invalid_codepoints, as runs <<lo, hi>>: references replaced by ""
InvalidCodepoints == <<
    <<1,8>>, <<11,11>>, <<14,31>>, <<127,159>>, <<64976,65007>>, <<65534,65535>>, <<131070,131071>>, <<196606,196607>>,
    <<262142,262143>>, <<327678,327679>>, <<393214,393215>>, <<458750,458751>>, <<524286,524287>>, <<589822,589823>>, <<655358,655359>>, <<720894,720895>>,
    <<786430,786431>>, <<851966,851967>>, <<917502,917503>>, <<983038,983039>>, <<1048574,1048575>>, <<1114110,1114111>> >>

\* html.entities.html5: the code points of every named reference, by its name
\* without the ";"
Html5 == [
    AElig |-> <<198>>, AMP |-> <<38>>, Aacute |-> <<193>>, Abreve |-> <<258>>,
    Acirc |-> <<194>>, Acy |-> <<1040>>, Afr |-> <<120068>>, Agrave |-> <<192>>,
    Alpha |-> <<913>>, Amacr |-> <<256>>, And |-> <<10835>>, Aogon |-> <<260>>,
    Aopf |-> <<120120>>, ApplyFunction |-> <<8289>>, Aring |-> <<197>>, Ascr |-> <<119964>>,
    Assign |-> <<8788>>, Atilde |-> <<195>>, Auml |-> <<196>>, Backslash |-> <<8726>>,
    Barv |-> <<10983>>, Barwed |-> <<8966>>, Bcy |-> <<1041>>, Because |-> <<8757>>,
    Bernoullis |-> <<8492>>, Beta |-> <<914>>, Bfr |-> <<120069>>, Bopf |-> <<120121>>,
    Breve |-> <<728>>, Bscr |-> <<8492>>, Bumpeq |-> <<8782>>, CHcy |-> <<1063>>,
    COPY |-> <<169>>, Cacute |-> <<262>>, Cap |-> <<8914>>, CapitalDifferentialD |-> <<8517>>,
    Cayleys |-> <<8493>>, Ccaron |-> <<268>>, Ccedil |-> <<199>>, Ccirc |-> <<264>>,
    Cconint |-> <<8752>>, Cdot |-> <<266>>, Cedilla |-> <<184>>, CenterDot |-> <<183>>,
    Cfr |-> <<8493>>, Chi |-> <<935>>, CircleDot |-> <<8857>>, CircleMinus |-> <<8854>>,
    CirclePlus |-> <<8853>>, CircleTimes |-> <<8855>>, ClockwiseContourIntegral |-> <<8754>>, CloseCurlyDoubleQuote |-> <<8221>>,
    CloseCurlyQuote |-> <<8217>>, Colon |-> <<8759>>, Colone |-> <<10868>>, Congruent |-> <<8801>>,
    Conint |-> <<8751>>, ContourIntegral |-> <<8750>>, Copf |-> <<8450>>, Coproduct |-> <<8720>>,
    CounterClockwiseContourIntegral |-> <<8755>>, Cross |-> <<10799>>, Cscr |-> <<119966>>, Cup |-> <<8915>>,
    CupCap |-> <<8781>>, DD |-> <<8517>>, DDotrahd |-> <<10513>>, DJcy |-> <<1026>>,
    DScy |-> <<1029>>, DZcy |-> <<1039>>, Dagger |-> <<8225>>, Darr |-> <<8609>>,
    Dashv |-> <<10980>>, Dcaron |-> <<270>>, Dcy |-> <<1044>>, Del |-> <<8711>>,
    Delta |-> <<916>>, Dfr |-> <<120071>>, DiacriticalAcute |-> <<180>>, DiacriticalDot |-> <<729>>,
    DiacriticalDoubleAcute |-> <<733>>, DiacriticalGrave |-> <<96>>, DiacriticalTilde |-> <<732>>, Diamond |-> <<8900>>,
    DifferentialD |-> <<8518>>, Dopf |-> <<120123>>, Dot |-> <<168>>, DotDot |-> <<8412>>,
    DotEqual |-> <<8784>>, DoubleContourIntegral |-> <<8751>>, DoubleDot |-> <<168>>, DoubleDownArrow |-> <<8659>>,
    DoubleLeftArrow |-> <<8656>>, DoubleLeftRightArrow |-> <<8660>>, DoubleLeftTee |-> <<10980>>, DoubleLongLeftArrow |-> <<10232>>,
    DoubleLongLeftRightArrow |-> <<10234>>, DoubleLongRightArrow |-> <<10233>>, DoubleRightArrow |-> <<8658>>, DoubleRightTee |-> <<8872>>,
    DoubleUpArrow |-> <<8657>>, DoubleUpDownArrow |-> <<8661>>, DoubleVerticalBar |-> <<8741>>, DownArrow |-> <<8595>>,
    DownArrowBar |-> <<10515>>, DownArrowUpArrow |-> <<8693>>, DownBreve |-> <<785>>, DownLeftRightVector |-> <<10576>>,
    DownLeftTeeVector |-> <<10590>>, DownLeftVector |-> <<8637>>, DownLeftVectorBar |-> <<10582>>, DownRightTeeVector |-> <<10591>>,
    DownRightVector |-> <<8641>>, DownRightVectorBar |-> <<10583>>, DownTee |-> <<8868>>, DownTeeArrow |-> <<8615>>,
    Downarrow |-> <<8659>>, Dscr |-> <<119967>>, Dstrok |-> <<272>>, ENG |-> <<330>>,
    ETH |-> <<208>>, Eacute |-> <<201>>, Ecaron |-> <<282>>, Ecirc |-> <<202>>,
    Ecy |-> <<1069>>, Edot |-> <<278>>, Efr |-> <<120072>>, Egrave |-> <<200>>,
    Element |-> <<8712>>, Emacr |-> <<274>>, EmptySmallSquare |-> <<9723>>, EmptyVerySmallSquare |-> <<9643>>,
    Eogon |-> <<280>>, Eopf |-> <<120124>>, Epsilon |-> <<917>>, Equal |-> <<10869>>,
    EqualTilde |-> <<8770>>, Equilibrium |-> <<8652>>, Escr |-> <<8496>>, Esim |-> <<10867>>,
    Eta |-> <<919>>, Euml |-> <<203>>, Exists |-> <<8707>>, ExponentialE |-> <<8519>>,
    Fcy |-> <<1060>>, Ffr |-> <<120073>>, FilledSmallSquare |-> <<9724>>, FilledVerySmallSquare |-> <<9642>>,
    Fopf |-> <<120125>>, ForAll |-> <<8704>>, Fouriertrf |-> <<8497>>, Fscr |-> <<8497>>,
    GJcy |-> <<1027>>, GT |-> <<62>>, Gamma |-> <<915>>, Gammad |-> <<988>>,
    Gbreve |-> <<286>>, Gcedil |-> <<290>>, Gcirc |-> <<284>>, Gcy |-> <<1043>>,
    Gdot |-> <<288>>, Gfr |-> <<120074>>, Gg |-> <<8921>>, Gopf |-> <<120126>>,
    GreaterEqual |-> <<8805>>, GreaterEqualLess |-> <<8923>>, GreaterFullEqual |-> <<8807>>, GreaterGreater |-> <<10914>>,
    GreaterLess |-> <<8823>>, GreaterSlantEqual |-> <<10878>>, GreaterTilde |-> <<8819>>, Gscr |-> <<119970>>,
    Gt |-> <<8811>>, HARDcy |-> <<1066>>, Hacek |-> <<711>>, Hat |-> <<94>>,
    Hcirc |-> <<292>>, Hfr |-> <<8460>>, HilbertSpace |-> <<8459>>, Hopf |-> <<8461>>,
    HorizontalLine |-> <<9472>>, Hscr |-> <<8459>>, Hstrok |-> <<294>>, HumpDownHump |-> <<8782>>,
    HumpEqual |-> <<8783>>, IEcy |-> <<1045>>, IJlig |-> <<306>>, IOcy |-> <<1025>>,
    Iacute |-> <<205>>, Icirc |-> <<206>>, Icy |-> <<1048>>, Idot |-> <<304>>,
    Ifr |-> <<8465>>, Igrave |-> <<204>>, Im |-> <<8465>>, Imacr |-> <<298>>,
    ImaginaryI |-> <<8520>>, Implies |-> <<8658>>, Int |-> <<8748>>, Integral |-> <<8747>>,
    Intersection |-> <<8898>>, InvisibleComma |-> <<8291>>, InvisibleTimes |-> <<8290>>, Iogon |-> <<302>>,
    Iopf |-> <<120128>>, Iota |-> <<921>>, Iscr |-> <<8464>>, Itilde |-> <<296>>,
    Iukcy |-> <<1030>>, Iuml |-> <<207>>, Jcirc |-> <<308>>, Jcy |-> <<1049>>,
    Jfr |-> <<120077>>, Jopf |-> <<120129>>, Jscr |-> <<119973>>, Jsercy |-> <<1032>>,
    Jukcy |-> <<1028>>, KHcy |-> <<1061>>, KJcy |-> <<1036>>, Kappa |-> <<922>>,
    Kcedil |-> <<310>>, Kcy |-> <<1050>>, Kfr |-> <<120078>>, Kopf |-> <<120130>>,
    Kscr |-> <<119974>>, LJcy |-> <<1033>>, LT |-> <<60>>, Lacute |-> <<313>>,
    Lambda |-> <<923>>, Lang |-> <<10218>>, Laplacetrf |-> <<8466>>, Larr |-> <<8606>>,
    Lcaron |-> <<317>>, Lcedil |-> <<315>>, Lcy |-> <<1051>>, LeftAngleBracket |-> <<10216>>,
    LeftArrow |-> <<8592>>, LeftArrowBar |-> <<8676>>, LeftArrowRightArrow |-> <<8646>>, LeftCeiling |-> <<8968>>,
    LeftDoubleBracket |-> <<10214>>, LeftDownTeeVector |-> <<10593>>, LeftDownVector |-> <<8643>>, LeftDownVectorBar |-> <<10585>>,
    LeftFloor |-> <<8970>>, LeftRightArrow |-> <<8596>>, LeftRightVector |-> <<10574>>, LeftTee |-> <<8867>>,
    LeftTeeArrow |-> <<8612>>, LeftTeeVector |-> <<10586>>, LeftTriangle |-> <<8882>>, LeftTriangleBar |-> <<10703>>,
    LeftTriangleEqual |-> <<8884>>, LeftUpDownVector |-> <<10577>>, LeftUpTeeVector |-> <<10592>>, LeftUpVector |-> <<8639>>,
    LeftUpVectorBar |-> <<10584>>, LeftVector |-> <<8636>>, LeftVectorBar |-> <<10578>>, Leftarrow |-> <<8656>>,
    Leftrightarrow |-> <<8660>>, LessEqualGreater |-> <<8922>>, LessFullEqual |-> <<8806>>, LessGreater |-> <<8822>>,
    LessLess |-> <<10913>>, LessSlantEqual |-> <<10877>>, LessTilde |-> <<8818>>, Lfr |-> <<120079>>,
    Ll |-> <<8920>>, Lleftarrow |-> <<8666>>, Lmidot |-> <<319>>, LongLeftArrow |-> <<10229>>,
    LongLeftRightArrow |-> <<10231>>, LongRightArrow |-> <<10230>>, Longleftarrow |-> <<10232>>, Longleftrightarrow |-> <<10234>>,
    Longrightarrow |-> <<10233>>, Lopf |-> <<120131>>, LowerLeftArrow |-> <<8601>>, LowerRightArrow |-> <<8600>>,
    Lscr |-> <<8466>>, Lsh |-> <<8624>>, Lstrok |-> <<321>>, Lt |-> <<8810>>,
    Map |-> <<10501>>, Mcy |-> <<1052>>, MediumSpace |-> <<8287>>, Mellintrf |-> <<8499>>,
    Mfr |-> <<120080>>, MinusPlus |-> <<8723>>, Mopf |-> <<120132>>, Mscr |-> <<8499>>,
    Mu |-> <<924>>, NJcy |-> <<1034>>, Nacute |-> <<323>>, Ncaron |-> <<327>>,
    Ncedil |-> <<325>>, Ncy |-> <<1053>>, NegativeMediumSpace |-> <<8203>>, NegativeThickSpace |-> <<8203>>,
    NegativeThinSpace |-> <<8203>>, NegativeVeryThinSpace |-> <<8203>>, NestedGreaterGreater |-> <<8811>>, NestedLessLess |-> <<8810>>,
    NewLine |-> <<10>>, Nfr |-> <<120081>>, NoBreak |-> <<8288>>, NonBreakingSpace |-> <<160>>,
    Nopf |-> <<8469>>, Not |-> <<10988>>, NotCongruent |-> <<8802>>, NotCupCap |-> <<8813>>,
    NotDoubleVerticalBar |-> <<8742>>, NotElement |-> <<8713>>, NotEqual |-> <<8800>>, NotEqualTilde |-> <<8770,824>>,
    NotExists |-> <<8708>>, NotGreater |-> <<8815>>, NotGreaterEqual |-> <<8817>>, NotGreaterFullEqual |-> <<8807,824>>,
    NotGreaterGreater |-> <<8811,824>>, NotGreaterLess |-> <<8825>>, NotGreaterSlantEqual |-> <<10878,824>>, NotGreaterTilde |-> <<8821>>,
    NotHumpDownHump |-> <<8782,824>>, NotHumpEqual |-> <<8783,824>>, NotLeftTriangle |-> <<8938>>, NotLeftTriangleBar |-> <<10703,824>>,
    NotLeftTriangleEqual |-> <<8940>>, NotLess |-> <<8814>>, NotLessEqual |-> <<8816>>, NotLessGreater |-> <<8824>>,
    NotLessLess |-> <<8810,824>>, NotLessSlantEqual |-> <<10877,824>>, NotLessTilde |-> <<8820>>, NotNestedGreaterGreater |-> <<10914,824>>,
    NotNestedLessLess |-> <<10913,824>>, NotPrecedes |-> <<8832>>, NotPrecedesEqual |-> <<10927,824>>, NotPrecedesSlantEqual |-> <<8928>>,
    NotReverseElement |-> <<8716>>, NotRightTriangle |-> <<8939>>, NotRightTriangleBar |-> <<10704,824>>, NotRightTriangleEqual |-> <<8941>>,
    NotSquareSubset |-> <<8847,824>>, NotSquareSubsetEqual |-> <<8930>>, NotSquareSuperset |-> <<8848,824>>, NotSquareSupersetEqual |-> <<8931>>,
    NotSubset |-> <<8834,8402>>, NotSubsetEqual |-> <<8840>>, NotSucceeds |-> <<8833>>, NotSucceedsEqual |-> <<10928,824>>,
    NotSucceedsSlantEqual |-> <<8929>>, NotSucceedsTilde |-> <<8831,824>>, NotSuperset |-> <<8835,8402>>, NotSupersetEqual |-> <<8841>>,
    NotTilde |-> <<8769>>, NotTildeEqual |-> <<8772>>, NotTildeFullEqual |-> <<8775>>, NotTildeTilde |-> <<8777>>,
    NotVerticalBar |-> <<8740>>, Nscr |-> <<119977>>, Ntilde |-> <<209>>, Nu |-> <<925>>,
    OElig |-> <<338>>, Oacute |-> <<211>>, Ocirc |-> <<212>>, Ocy |-> <<1054>>,
    Odblac |-> <<336>>, Ofr |-> <<120082>>, Ograve |-> <<210>>, Omacr |-> <<332>>,
    Omega |-> <<937>>, Omicron |-> <<927>>, Oopf |-> <<120134>>, OpenCurlyDoubleQuote |-> <<8220>>,
    OpenCurlyQuote |-> <<8216>>, Or |-> <<10836>>, Oscr |-> <<119978>>, Oslash |-> <<216>>,
    Otilde |-> <<213>>, Otimes |-> <<10807>>, Ouml |-> <<214>>, OverBar |-> <<8254>>,
    OverBrace |-> <<9182>>, OverBracket |-> <<9140>>, OverParenthesis |-> <<9180>>, PartialD |-> <<8706>>,
    Pcy |-> <<1055>>, Pfr |-> <<120083>>, Phi |-> <<934>>, Pi |-> <<928>>,
    PlusMinus |-> <<177>>, Poincareplane |-> <<8460>>, Popf |-> <<8473>>, Pr |-> <<10939>>,
    Precedes |-> <<8826>>, PrecedesEqual |-> <<10927>>, PrecedesSlantEqual |-> <<8828>>, PrecedesTilde |-> <<8830>>,
    Prime |-> <<8243>>, Product |-> <<8719>>, Proportion |-> <<8759>>, Proportional |-> <<8733>>,
    Pscr |-> <<119979>>, Psi |-> <<936>>, QUOT |-> <<34>>, Qfr |-> <<120084>>,
    Qopf |-> <<8474>>, Qscr |-> <<119980>>, RBarr |-> <<10512>>, REG |-> <<174>>,
    Racute |-> <<340>>, Rang |-> <<10219>>, Rarr |-> <<8608>>, Rarrtl |-> <<10518>>,
    Rcaron |-> <<344>>, Rcedil |-> <<342>>, Rcy |-> <<1056>>, Re |-> <<8476>>,
    ReverseElement |-> <<8715>>, ReverseEquilibrium |-> <<8651>>, ReverseUpEquilibrium |-> <<10607>>, Rfr |-> <<8476>>,
    Rho |-> <<929>>, RightAngleBracket |-> <<10217>>, RightArrow |-> <<8594>>, RightArrowBar |-> <<8677>>,
    RightArrowLeftArrow |-> <<8644>>, RightCeiling |-> <<8969>>, RightDoubleBracket |-> <<10215>>, RightDownTeeVector |-> <<10589>>,
    RightDownVector |-> <<8642>>, RightDownVectorBar |-> <<10581>>, RightFloor |-> <<8971>>, RightTee |-> <<8866>>,
    RightTeeArrow |-> <<8614>>, RightTeeVector |-> <<10587>>, RightTriangle |-> <<8883>>, RightTriangleBar |-> <<10704>>,
    RightTriangleEqual |-> <<8885>>, RightUpDownVector |-> <<10575>>, RightUpTeeVector |-> <<10588>>, RightUpVector |-> <<8638>>,
    RightUpVectorBar |-> <<10580>>, RightVector |-> <<8640>>, RightVectorBar |-> <<10579>>, Rightarrow |-> <<8658>>,
    Ropf |-> <<8477>>, RoundImplies |-> <<10608>>, Rrightarrow |-> <<8667>>, Rscr |-> <<8475>>,
    Rsh |-> <<8625>>, RuleDelayed |-> <<10740>>, SHCHcy |-> <<1065>>, SHcy |-> <<1064>>,
    SOFTcy |-> <<1068>>, Sacute |-> <<346>>, Sc |-> <<10940>>, Scaron |-> <<352>>,
    Scedil |-> <<350>>, Scirc |-> <<348>>, Scy |-> <<1057>>, Sfr |-> <<120086>>,
    ShortDownArrow |-> <<8595>>, ShortLeftArrow |-> <<8592>>, ShortRightArrow |-> <<8594>>, ShortUpArrow |-> <<8593>>,
    Sigma |-> <<931>>, SmallCircle |-> <<8728>>, Sopf |-> <<120138>>, Sqrt |-> <<8730>>,
    Square |-> <<9633>>, SquareIntersection |-> <<8851>>, SquareSubset |-> <<8847>>, SquareSubsetEqual |-> <<8849>>,
    SquareSuperset |-> <<8848>>, SquareSupersetEqual |-> <<8850>>, SquareUnion |-> <<8852>>, Sscr |-> <<119982>>,
    Star |-> <<8902>>, Sub |-> <<8912>>, Subset |-> <<8912>>, SubsetEqual |-> <<8838>>,
    Succeeds |-> <<8827>>, SucceedsEqual |-> <<10928>>, SucceedsSlantEqual |-> <<8829>>, SucceedsTilde |-> <<8831>>,
    SuchThat |-> <<8715>>, Sum |-> <<8721>>, Sup |-> <<8913>>, Superset |-> <<8835>>,
    SupersetEqual |-> <<8839>>, Supset |-> <<8913>>, THORN |-> <<222>>, TRADE |-> <<8482>>,
    TSHcy |-> <<1035>>, TScy |-> <<1062>>, Tab |-> <<9>>, Tau |-> <<932>>,
    Tcaron |-> <<356>>, Tcedil |-> <<354>>, Tcy |-> <<1058>>, Tfr |-> <<120087>>,
    Therefore |-> <<8756>>, Theta |-> <<920>>, ThickSpace |-> <<8287,8202>>, ThinSpace |-> <<8201>>,
    Tilde |-> <<8764>>, TildeEqual |-> <<8771>>, TildeFullEqual |-> <<8773>>, TildeTilde |-> <<8776>>,
    Topf |-> <<120139>>, TripleDot |-> <<8411>>, Tscr |-> <<119983>>, Tstrok |-> <<358>>,
    Uacute |-> <<218>>, Uarr |-> <<8607>>, Uarrocir |-> <<10569>>, Ubrcy |-> <<1038>>,
    Ubreve |-> <<364>>, Ucirc |-> <<219>>, Ucy |-> <<1059>>, Udblac |-> <<368>>,
    Ufr |-> <<120088>>, Ugrave |-> <<217>>, Umacr |-> <<362>>, UnderBar |-> <<95>>,
    UnderBrace |-> <<9183>>, UnderBracket |-> <<9141>>, UnderParenthesis |-> <<9181>>, Union |-> <<8899>>,
    UnionPlus |-> <<8846>>, Uogon |-> <<370>>, Uopf |-> <<120140>>, UpArrow |-> <<8593>>,
    UpArrowBar |-> <<10514>>, UpArrowDownArrow |-> <<8645>>, UpDownArrow |-> <<8597>>, UpEquilibrium |-> <<10606>>,
    UpTee |-> <<8869>>, UpTeeArrow |-> <<8613>>, Uparrow |-> <<8657>>, Updownarrow |-> <<8661>>,
    UpperLeftArrow |-> <<8598>>, UpperRightArrow |-> <<8599>>, Upsi |-> <<978>>, Upsilon |-> <<933>>,
    Uring |-> <<366>>, Uscr |-> <<119984>>, Utilde |-> <<360>>, Uuml |-> <<220>>,
    VDash |-> <<8875>>, Vbar |-> <<10987>>, Vcy |-> <<1042>>, Vdash |-> <<8873>>,
    Vdashl |-> <<10982>>, Vee |-> <<8897>>, Verbar |-> <<8214>>, Vert |-> <<8214>>,
    VerticalBar |-> <<8739>>, VerticalLine |-> <<124>>, VerticalSeparator |-> <<10072>>, VerticalTilde |-> <<8768>>,
    VeryThinSpace |-> <<8202>>, Vfr |-> <<120089>>, Vopf |-> <<120141>>, Vscr |-> <<119985>>,
    Vvdash |-> <<8874>>, Wcirc |-> <<372>>, Wedge |-> <<8896>>, Wfr |-> <<120090>>,
    Wopf |-> <<120142>>, Wscr |-> <<119986>>, Xfr |-> <<120091>>, Xi |-> <<926>>,
    Xopf |-> <<120143>>, Xscr |-> <<119987>>, YAcy |-> <<1071>>, YIcy |-> <<1031>>,
    YUcy |-> <<1070>>, Yacute |-> <<221>>, Ycirc |-> <<374>>, Ycy |-> <<1067>>,
    Yfr |-> <<120092>>, Yopf |-> <<120144>>, Yscr |-> <<119988>>, Yuml |-> <<376>>,
    ZHcy |-> <<1046>>, Zacute |-> <<377>>, Zcaron |-> <<381>>, Zcy |-> <<1047>>,
    Zdot |-> <<379>>, ZeroWidthSpace |-> <<8203>>, Zeta |-> <<918>>, Zfr |-> <<8488>>,
    Zopf |-> <<8484>>, Zscr |-> <<119989>>, aacute |-> <<225>>, abreve |-> <<259>>,
    ac |-> <<8766>>, acE |-> <<8766,819>>, acd |-> <<8767>>, acirc |-> <<226>>,
    acute |-> <<180>>, acy |-> <<1072>>, aelig |-> <<230>>, af |-> <<8289>>,
    afr |-> <<120094>>, agrave |-> <<224>>, alefsym |-> <<8501>>, aleph |-> <<8501>>,
    alpha |-> <<945>>, amacr |-> <<257>>, amalg |-> <<10815>>, amp |-> <<38>>,
    and |-> <<8743>>, andand |-> <<10837>>, andd |-> <<10844>>, andslope |-> <<10840>>,
    andv |-> <<10842>>, ang |-> <<8736>>, ange |-> <<10660>>, angle |-> <<8736>>,
    angmsd |-> <<8737>>, angmsdaa |-> <<10664>>, angmsdab |-> <<10665>>, angmsdac |-> <<10666>>,
    angmsdad |-> <<10667>>, angmsdae |-> <<10668>>, angmsdaf |-> <<10669>>, angmsdag |-> <<10670>>,
    angmsdah |-> <<10671>>, angrt |-> <<8735>>, angrtvb |-> <<8894>>, angrtvbd |-> <<10653>>,
    angsph |-> <<8738>>, angst |-> <<197>>, angzarr |-> <<9084>>, aogon |-> <<261>>,
    aopf |-> <<120146>>, ap |-> <<8776>>, apE |-> <<10864>>, apacir |-> <<10863>>,
    ape |-> <<8778>>, apid |-> <<8779>>, apos |-> <<39>>, approx |-> <<8776>>,
    approxeq |-> <<8778>>, aring |-> <<229>>, ascr |-> <<119990>>, ast |-> <<42>>,
    asymp |-> <<8776>>, asympeq |-> <<8781>>, atilde |-> <<227>>, auml |-> <<228>>,
    awconint |-> <<8755>>, awint |-> <<10769>>, bNot |-> <<10989>>, backcong |-> <<8780>>,
    backepsilon |-> <<1014>>, backprime |-> <<8245>>, backsim |-> <<8765>>, backsimeq |-> <<8909>>,
    barvee |-> <<8893>>, barwed |-> <<8965>>, barwedge |-> <<8965>>, bbrk |-> <<9141>>,
    bbrktbrk |-> <<9142>>, bcong |-> <<8780>>, bcy |-> <<1073>>, bdquo |-> <<8222>>,
    becaus |-> <<8757>>, because |-> <<8757>>, bemptyv |-> <<10672>>, bepsi |-> <<1014>>,
    bernou |-> <<8492>>, beta |-> <<946>>, beth |-> <<8502>>, between |-> <<8812>>,
    bfr |-> <<120095>>, bigcap |-> <<8898>>, bigcirc |-> <<9711>>, bigcup |-> <<8899>>,
    bigodot |-> <<10752>>, bigoplus |-> <<10753>>, bigotimes |-> <<10754>>, bigsqcup |-> <<10758>>,
    bigstar |-> <<9733>>, bigtriangledown |-> <<9661>>, bigtriangleup |-> <<9651>>, biguplus |-> <<10756>>,
    bigvee |-> <<8897>>, bigwedge |-> <<8896>>, bkarow |-> <<10509>>, blacklozenge |-> <<10731>>,
    blacksquare |-> <<9642>>, blacktriangle |-> <<9652>>, blacktriangledown |-> <<9662>>, blacktriangleleft |-> <<9666>>,
    blacktriangleright |-> <<9656>>, blank |-> <<9251>>, blk12 |-> <<9618>>, blk14 |-> <<9617>>,
    blk34 |-> <<9619>>, block |-> <<9608>>, bne |-> <<61,8421>>, bnequiv |-> <<8801,8421>>,
    bnot |-> <<8976>>, bopf |-> <<120147>>, bot |-> <<8869>>, bottom |-> <<8869>>,
    bowtie |-> <<8904>>, boxDL |-> <<9559>>, boxDR |-> <<9556>>, boxDl |-> <<9558>>,
    boxDr |-> <<9555>>, boxH |-> <<9552>>, boxHD |-> <<9574>>, boxHU |-> <<9577>>,
    boxHd |-> <<9572>>, boxHu |-> <<9575>>, boxUL |-> <<9565>>, boxUR |-> <<9562>>,
    boxUl |-> <<9564>>, boxUr |-> <<9561>>, boxV |-> <<9553>>, boxVH |-> <<9580>>,
    boxVL |-> <<9571>>, boxVR |-> <<9568>>, boxVh |-> <<9579>>, boxVl |-> <<9570>>,
    boxVr |-> <<9567>>, boxbox |-> <<10697>>, boxdL |-> <<9557>>, boxdR |-> <<9554>>,
    boxdl |-> <<9488>>, boxdr |-> <<9484>>, boxh |-> <<9472>>, boxhD |-> <<9573>>,
    boxhU |-> <<9576>>, boxhd |-> <<9516>>, boxhu |-> <<9524>>, boxminus |-> <<8863>>,
    boxplus |-> <<8862>>, boxtimes |-> <<8864>>, boxuL |-> <<9563>>, boxuR |-> <<9560>>,
    boxul |-> <<9496>>, boxur |-> <<9492>>, boxv |-> <<9474>>, boxvH |-> <<9578>>,
    boxvL |-> <<9569>>, boxvR |-> <<9566>>, boxvh |-> <<9532>>, boxvl |-> <<9508>>,
    boxvr |-> <<9500>>, bprime |-> <<8245>>, breve |-> <<728>>, brvbar |-> <<166>>,
    bscr |-> <<119991>>, bsemi |-> <<8271>>, bsim |-> <<8765>>, bsime |-> <<8909>>,
    bsol |-> <<92>>, bsolb |-> <<10693>>, bsolhsub |-> <<10184>>, bull |-> <<8226>>,
    bullet |-> <<8226>>, bump |-> <<8782>>, bumpE |-> <<10926>>, bumpe |-> <<8783>>,
    bumpeq |-> <<8783>>, cacute |-> <<263>>, cap |-> <<8745>>, capand |-> <<10820>>,
    capbrcup |-> <<10825>>, capcap |-> <<10827>>, capcup |-> <<10823>>, capdot |-> <<10816>>,
    caps |-> <<8745,65024>>, caret |-> <<8257>>, caron |-> <<711>>, ccaps |-> <<10829>>,
    ccaron |-> <<269>>, ccedil |-> <<231>>, ccirc |-> <<265>>, ccups |-> <<10828>>,
    ccupssm |-> <<10832>>, cdot |-> <<267>>, cedil |-> <<184>>, cemptyv |-> <<10674>>,
    cent |-> <<162>>, centerdot |-> <<183>>, cfr |-> <<120096>>, chcy |-> <<1095>>,
    check |-> <<10003>>, checkmark |-> <<10003>>, chi |-> <<967>>, cir |-> <<9675>>,
    cirE |-> <<10691>>, circ |-> <<710>>, circeq |-> <<8791>>, circlearrowleft |-> <<8634>>,
    circlearrowright |-> <<8635>>, circledR |-> <<174>>, circledS |-> <<9416>>, circledast |-> <<8859>>,
    circledcirc |-> <<8858>>, circleddash |-> <<8861>>, cire |-> <<8791>>, cirfnint |-> <<10768>>,
    cirmid |-> <<10991>>, cirscir |-> <<10690>>, clubs |-> <<9827>>, clubsuit |-> <<9827>>,
    colon |-> <<58>>, colone |-> <<8788>>, coloneq |-> <<8788>>, comma |-> <<44>>,
    commat |-> <<64>>, comp |-> <<8705>>, compfn |-> <<8728>>, complement |-> <<8705>>,
    complexes |-> <<8450>>, cong |-> <<8773>>, congdot |-> <<10861>>, conint |-> <<8750>>,
    copf |-> <<120148>>, coprod |-> <<8720>>, copy |-> <<169>>, copysr |-> <<8471>>,
    crarr |-> <<8629>>, cross |-> <<10007>>, cscr |-> <<119992>>, csub |-> <<10959>>,
    csube |-> <<10961>>, csup |-> <<10960>>, csupe |-> <<10962>>, ctdot |-> <<8943>>,
    cudarrl |-> <<10552>>, cudarrr |-> <<10549>>, cuepr |-> <<8926>>, cuesc |-> <<8927>>,
    cularr |-> <<8630>>, cularrp |-> <<10557>>, cup |-> <<8746>>, cupbrcap |-> <<10824>>,
    cupcap |-> <<10822>>, cupcup |-> <<10826>>, cupdot |-> <<8845>>, cupor |-> <<10821>>,
    cups |-> <<8746,65024>>, curarr |-> <<8631>>, curarrm |-> <<10556>>, curlyeqprec |-> <<8926>>,
    curlyeqsucc |-> <<8927>>, curlyvee |-> <<8910>>, curlywedge |-> <<8911>>, curren |-> <<164>>,
    curvearrowleft |-> <<8630>>, curvearrowright |-> <<8631>>, cuvee |-> <<8910>>, cuwed |-> <<8911>>,
    cwconint |-> <<8754>>, cwint |-> <<8753>>, cylcty |-> <<9005>>, dArr |-> <<8659>>,
    dHar |-> <<10597>>, dagger |-> <<8224>>, daleth |-> <<8504>>, darr |-> <<8595>>,
    dash |-> <<8208>>, dashv |-> <<8867>>, dbkarow |-> <<10511>>, dblac |-> <<733>>,
    dcaron |-> <<271>>, dcy |-> <<1076>>, dd |-> <<8518>>, ddagger |-> <<8225>>,
    ddarr |-> <<8650>>, ddotseq |-> <<10871>>, deg |-> <<176>>, delta |-> <<948>>,
    demptyv |-> <<10673>>, dfisht |-> <<10623>>, dfr |-> <<120097>>, dharl |-> <<8643>>,
    dharr |-> <<8642>>, diam |-> <<8900>>, diamond |-> <<8900>>, diamondsuit |-> <<9830>>,
    diams |-> <<9830>>, die |-> <<168>>, digamma |-> <<989>>, disin |-> <<8946>>,
    div |-> <<247>>, divide |-> <<247>>, divideontimes |-> <<8903>>, divonx |-> <<8903>>,
    djcy |-> <<1106>>, dlcorn |-> <<8990>>, dlcrop |-> <<8973>>, dollar |-> <<36>>,
    dopf |-> <<120149>>, dot |-> <<729>>, doteq |-> <<8784>>, doteqdot |-> <<8785>>,
    dotminus |-> <<8760>>, dotplus |-> <<8724>>, dotsquare |-> <<8865>>, doublebarwedge |-> <<8966>>,
    downarrow |-> <<8595>>, downdownarrows |-> <<8650>>, downharpoonleft |-> <<8643>>, downharpoonright |-> <<8642>>,
    drbkarow |-> <<10512>>, drcorn |-> <<8991>>, drcrop |-> <<8972>>, dscr |-> <<119993>>,
    dscy |-> <<1109>>, dsol |-> <<10742>>, dstrok |-> <<273>>, dtdot |-> <<8945>>,
    dtri |-> <<9663>>, dtrif |-> <<9662>>, duarr |-> <<8693>>, duhar |-> <<10607>>,
    dwangle |-> <<10662>>, dzcy |-> <<1119>>, dzigrarr |-> <<10239>>, eDDot |-> <<10871>>,
    eDot |-> <<8785>>, eacute |-> <<233>>, easter |-> <<10862>>, ecaron |-> <<283>>,
    ecir |-> <<8790>>, ecirc |-> <<234>>, ecolon |-> <<8789>>, ecy |-> <<1101>>,
    edot |-> <<279>>, ee |-> <<8519>>, efDot |-> <<8786>>, efr |-> <<120098>>,
    eg |-> <<10906>>, egrave |-> <<232>>, egs |-> <<10902>>, egsdot |-> <<10904>>,
    el |-> <<10905>>, elinters |-> <<9191>>, ell |-> <<8467>>, els |-> <<10901>>,
    elsdot |-> <<10903>>, emacr |-> <<275>>, empty |-> <<8709>>, emptyset |-> <<8709>>,
    emptyv |-> <<8709>>, emsp |-> <<8195>>, emsp13 |-> <<8196>>, emsp14 |-> <<8197>>,
    eng |-> <<331>>, ensp |-> <<8194>>, eogon |-> <<281>>, eopf |-> <<120150>>,
    epar |-> <<8917>>, eparsl |-> <<10723>>, eplus |-> <<10865>>, epsi |-> <<949>>,
    epsilon |-> <<949>>, epsiv |-> <<1013>>, eqcirc |-> <<8790>>, eqcolon |-> <<8789>>,
    eqsim |-> <<8770>>, eqslantgtr |-> <<10902>>, eqslantless |-> <<10901>>, equals |-> <<61>>,
    equest |-> <<8799>>, equiv |-> <<8801>>, equivDD |-> <<10872>>, eqvparsl |-> <<10725>>,
    erDot |-> <<8787>>, erarr |-> <<10609>>, escr |-> <<8495>>, esdot |-> <<8784>>,
    esim |-> <<8770>>, eta |-> <<951>>, eth |-> <<240>>, euml |-> <<235>>,
    euro |-> <<8364>>, excl |-> <<33>>, exist |-> <<8707>>, expectation |-> <<8496>>,
    exponentiale |-> <<8519>>, fallingdotseq |-> <<8786>>, fcy |-> <<1092>>, female |-> <<9792>>,
    ffilig |-> <<64259>>, fflig |-> <<64256>>, ffllig |-> <<64260>>, ffr |-> <<120099>>,
    filig |-> <<64257>>, fjlig |-> <<102,106>>, flat |-> <<9837>>, fllig |-> <<64258>>,
    fltns |-> <<9649>>, fnof |-> <<402>>, fopf |-> <<120151>>, forall |-> <<8704>>,
    fork |-> <<8916>>, forkv |-> <<10969>>, fpartint |-> <<10765>>, frac12 |-> <<189>>,
    frac13 |-> <<8531>>, frac14 |-> <<188>>, frac15 |-> <<8533>>, frac16 |-> <<8537>>,
    frac18 |-> <<8539>>, frac23 |-> <<8532>>, frac25 |-> <<8534>>, frac34 |-> <<190>>,
    frac35 |-> <<8535>>, frac38 |-> <<8540>>, frac45 |-> <<8536>>, frac56 |-> <<8538>>,
    frac58 |-> <<8541>>, frac78 |-> <<8542>>, frasl |-> <<8260>>, frown |-> <<8994>>,
    fscr |-> <<119995>>, gE |-> <<8807>>, gEl |-> <<10892>>, gacute |-> <<501>>,
    gamma |-> <<947>>, gammad |-> <<989>>, gap |-> <<10886>>, gbreve |-> <<287>>,
    gcirc |-> <<285>>, gcy |-> <<1075>>, gdot |-> <<289>>, ge |-> <<8805>>,
    gel |-> <<8923>>, geq |-> <<8805>>, geqq |-> <<8807>>, geqslant |-> <<10878>>,
    ges |-> <<10878>>, gescc |-> <<10921>>, gesdot |-> <<10880>>, gesdoto |-> <<10882>>,
    gesdotol |-> <<10884>>, gesl |-> <<8923,65024>>, gesles |-> <<10900>>, gfr |-> <<120100>>,
    gg |-> <<8811>>, ggg |-> <<8921>>, gimel |-> <<8503>>, gjcy |-> <<1107>>,
    gl |-> <<8823>>, glE |-> <<10898>>, gla |-> <<10917>>, glj |-> <<10916>>,
    gnE |-> <<8809>>, gnap |-> <<10890>>, gnapprox |-> <<10890>>, gne |-> <<10888>>,
    gneq |-> <<10888>>, gneqq |-> <<8809>>, gnsim |-> <<8935>>, gopf |-> <<120152>>,
    grave |-> <<96>>, gscr |-> <<8458>>, gsim |-> <<8819>>, gsime |-> <<10894>>,
    gsiml |-> <<10896>>, gt |-> <<62>>, gtcc |-> <<10919>>, gtcir |-> <<10874>>,
    gtdot |-> <<8919>>, gtlPar |-> <<10645>>, gtquest |-> <<10876>>, gtrapprox |-> <<10886>>,
    gtrarr |-> <<10616>>, gtrdot |-> <<8919>>, gtreqless |-> <<8923>>, gtreqqless |-> <<10892>>,
    gtrless |-> <<8823>>, gtrsim |-> <<8819>>, gvertneqq |-> <<8809,65024>>, gvnE |-> <<8809,65024>>,
    hArr |-> <<8660>>, hairsp |-> <<8202>>, half |-> <<189>>, hamilt |-> <<8459>>,
    hardcy |-> <<1098>>, harr |-> <<8596>>, harrcir |-> <<10568>>, harrw |-> <<8621>>,
    hbar |-> <<8463>>, hcirc |-> <<293>>, hearts |-> <<9829>>, heartsuit |-> <<9829>>,
    hellip |-> <<8230>>, hercon |-> <<8889>>, hfr |-> <<120101>>, hksearow |-> <<10533>>,
    hkswarow |-> <<10534>>, hoarr |-> <<8703>>, homtht |-> <<8763>>, hookleftarrow |-> <<8617>>,
    hookrightarrow |-> <<8618>>, hopf |-> <<120153>>, horbar |-> <<8213>>, hscr |-> <<119997>>,
    hslash |-> <<8463>>, hstrok |-> <<295>>, hybull |-> <<8259>>, hyphen |-> <<8208>>,
    iacute |-> <<237>>, ic |-> <<8291>>, icirc |-> <<238>>, icy |-> <<1080>>,
    iecy |-> <<1077>>, iexcl |-> <<161>>, iff |-> <<8660>>, ifr |-> <<120102>>,
    igrave |-> <<236>>, ii |-> <<8520>>, iiiint |-> <<10764>>, iiint |-> <<8749>>,
    iinfin |-> <<10716>>, iiota |-> <<8489>>, ijlig |-> <<307>>, imacr |-> <<299>>,
    image |-> <<8465>>, imagline |-> <<8464>>, imagpart |-> <<8465>>, imath |-> <<305>>,
    imof |-> <<8887>>, imped |-> <<437>>, in |-> <<8712>>, incare |-> <<8453>>,
    infin |-> <<8734>>, infintie |-> <<10717>>, inodot |-> <<305>>, int |-> <<8747>>,
    intcal |-> <<8890>>, integers |-> <<8484>>, intercal |-> <<8890>>, intlarhk |-> <<10775>>,
    intprod |-> <<10812>>, iocy |-> <<1105>>, iogon |-> <<303>>, iopf |-> <<120154>>,
    iota |-> <<953>>, iprod |-> <<10812>>, iquest |-> <<191>>, iscr |-> <<119998>>,
    isin |-> <<8712>>, isinE |-> <<8953>>, isindot |-> <<8949>>, isins |-> <<8948>>,
    isinsv |-> <<8947>>, isinv |-> <<8712>>, it |-> <<8290>>, itilde |-> <<297>>,
    iukcy |-> <<1110>>, iuml |-> <<239>>, jcirc |-> <<309>>, jcy |-> <<1081>>,
    jfr |-> <<120103>>, jmath |-> <<567>>, jopf |-> <<120155>>, jscr |-> <<119999>>,
    jsercy |-> <<1112>>, jukcy |-> <<1108>>, kappa |-> <<954>>, kappav |-> <<1008>>,
    kcedil |-> <<311>>, kcy |-> <<1082>>, kfr |-> <<120104>>, kgreen |-> <<312>>,
    khcy |-> <<1093>>, kjcy |-> <<1116>>, kopf |-> <<120156>>, kscr |-> <<120000>>,
    lAarr |-> <<8666>>, lArr |-> <<8656>>, lAtail |-> <<10523>>, lBarr |-> <<10510>>,
    lE |-> <<8806>>, lEg |-> <<10891>>, lHar |-> <<10594>>, lacute |-> <<314>>,
    laemptyv |-> <<10676>>, lagran |-> <<8466>>, lambda |-> <<955>>, lang |-> <<10216>>,
    langd |-> <<10641>>, langle |-> <<10216>>, lap |-> <<10885>>, laquo |-> <<171>>,
    larr |-> <<8592>>, larrb |-> <<8676>>, larrbfs |-> <<10527>>, larrfs |-> <<10525>>,
    larrhk |-> <<8617>>, larrlp |-> <<8619>>, larrpl |-> <<10553>>, larrsim |-> <<10611>>,
    larrtl |-> <<8610>>, lat |-> <<10923>>, latail |-> <<10521>>, late |-> <<10925>>,
    lates |-> <<10925,65024>>, lbarr |-> <<10508>>, lbbrk |-> <<10098>>, lbrace |-> <<123>>,
    lbrack |-> <<91>>, lbrke |-> <<10635>>, lbrksld |-> <<10639>>, lbrkslu |-> <<10637>>,
    lcaron |-> <<318>>, lcedil |-> <<316>>, lceil |-> <<8968>>, lcub |-> <<123>>,
    lcy |-> <<1083>>, ldca |-> <<10550>>, ldquo |-> <<8220>>, ldquor |-> <<8222>>,
    ldrdhar |-> <<10599>>, ldrushar |-> <<10571>>, ldsh |-> <<8626>>, le |-> <<8804>>,
    leftarrow |-> <<8592>>, leftarrowtail |-> <<8610>>, leftharpoondown |-> <<8637>>, leftharpoonup |-> <<8636>>,
    leftleftarrows |-> <<8647>>, leftrightarrow |-> <<8596>>, leftrightarrows |-> <<8646>>, leftrightharpoons |-> <<8651>>,
    leftrightsquigarrow |-> <<8621>>, leftthreetimes |-> <<8907>>, leg |-> <<8922>>, leq |-> <<8804>>,
    leqq |-> <<8806>>, leqslant |-> <<10877>>, les |-> <<10877>>, lescc |-> <<10920>>,
    lesdot |-> <<10879>>, lesdoto |-> <<10881>>, lesdotor |-> <<10883>>, lesg |-> <<8922,65024>>,
    lesges |-> <<10899>>, lessapprox |-> <<10885>>, lessdot |-> <<8918>>, lesseqgtr |-> <<8922>>,
    lesseqqgtr |-> <<10891>>, lessgtr |-> <<8822>>, lesssim |-> <<8818>>, lfisht |-> <<10620>>,
    lfloor |-> <<8970>>, lfr |-> <<120105>>, lg |-> <<8822>>, lgE |-> <<10897>>,
    lhard |-> <<8637>>, lharu |-> <<8636>>, lharul |-> <<10602>>, lhblk |-> <<9604>>,
    ljcy |-> <<1113>>, ll |-> <<8810>>, llarr |-> <<8647>>, llcorner |-> <<8990>>,
    llhard |-> <<10603>>, lltri |-> <<9722>>, lmidot |-> <<320>>, lmoust |-> <<9136>>,
    lmoustache |-> <<9136>>, lnE |-> <<8808>>, lnap |-> <<10889>>, lnapprox |-> <<10889>>,
    lne |-> <<10887>>, lneq |-> <<10887>>, lneqq |-> <<8808>>, lnsim |-> <<8934>>,
    loang |-> <<10220>>, loarr |-> <<8701>>, lobrk |-> <<10214>>, longleftarrow |-> <<10229>>,
    longleftrightarrow |-> <<10231>>, longmapsto |-> <<10236>>, longrightarrow |-> <<10230>>, looparrowleft |-> <<8619>>,
    looparrowright |-> <<8620>>, lopar |-> <<10629>>, lopf |-> <<120157>>, loplus |-> <<10797>>,
    lotimes |-> <<10804>>, lowast |-> <<8727>>, lowbar |-> <<95>>, loz |-> <<9674>>,
    lozenge |-> <<9674>>, lozf |-> <<10731>>, lpar |-> <<40>>, lparlt |-> <<10643>>,
    lrarr |-> <<8646>>, lrcorner |-> <<8991>>, lrhar |-> <<8651>>, lrhard |-> <<10605>>,
    lrm |-> <<8206>>, lrtri |-> <<8895>>, lsaquo |-> <<8249>>, lscr |-> <<120001>>,
    lsh |-> <<8624>>, lsim |-> <<8818>>, lsime |-> <<10893>>, lsimg |-> <<10895>>,
    lsqb |-> <<91>>, lsquo |-> <<8216>>, lsquor |-> <<8218>>, lstrok |-> <<322>>,
    lt |-> <<60>>, ltcc |-> <<10918>>, ltcir |-> <<10873>>, ltdot |-> <<8918>>,
    lthree |-> <<8907>>, ltimes |-> <<8905>>, ltlarr |-> <<10614>>, ltquest |-> <<10875>>,
    ltrPar |-> <<10646>>, ltri |-> <<9667>>, ltrie |-> <<8884>>, ltrif |-> <<9666>>,
    lurdshar |-> <<10570>>, luruhar |-> <<10598>>, lvertneqq |-> <<8808,65024>>, lvnE |-> <<8808,65024>>,
    mDDot |-> <<8762>>, macr |-> <<175>>, male |-> <<9794>>, malt |-> <<10016>>,
    maltese |-> <<10016>>, map |-> <<8614>>, mapsto |-> <<8614>>, mapstodown |-> <<8615>>,
    mapstoleft |-> <<8612>>, mapstoup |-> <<8613>>, marker |-> <<9646>>, mcomma |-> <<10793>>,
    mcy |-> <<1084>>, mdash |-> <<8212>>, measuredangle |-> <<8737>>, mfr |-> <<120106>>,
    mho |-> <<8487>>, micro |-> <<181>>, mid |-> <<8739>>, midast |-> <<42>>,
    midcir |-> <<10992>>, middot |-> <<183>>, minus |-> <<8722>>, minusb |-> <<8863>>,
    minusd |-> <<8760>>, minusdu |-> <<10794>>, mlcp |-> <<10971>>, mldr |-> <<8230>>,
    mnplus |-> <<8723>>, models |-> <<8871>>, mopf |-> <<120158>>, mp |-> <<8723>>,
    mscr |-> <<120002>>, mstpos |-> <<8766>>, mu |-> <<956>>, multimap |-> <<8888>>,
    mumap |-> <<8888>>, nGg |-> <<8921,824>>, nGt |-> <<8811,8402>>, nGtv |-> <<8811,824>>,
    nLeftarrow |-> <<8653>>, nLeftrightarrow |-> <<8654>>, nLl |-> <<8920,824>>, nLt |-> <<8810,8402>>,
    nLtv |-> <<8810,824>>, nRightarrow |-> <<8655>>, nVDash |-> <<8879>>, nVdash |-> <<8878>>,
    nabla |-> <<8711>>, nacute |-> <<324>>, nang |-> <<8736,8402>>, nap |-> <<8777>>,
    napE |-> <<10864,824>>, napid |-> <<8779,824>>, napos |-> <<329>>, napprox |-> <<8777>>,
    natur |-> <<9838>>, natural |-> <<9838>>, naturals |-> <<8469>>, nbsp |-> <<160>>,
    nbump |-> <<8782,824>>, nbumpe |-> <<8783,824>>, ncap |-> <<10819>>, ncaron |-> <<328>>,
    ncedil |-> <<326>>, ncong |-> <<8775>>, ncongdot |-> <<10861,824>>, ncup |-> <<10818>>,
    ncy |-> <<1085>>, ndash |-> <<8211>>, ne |-> <<8800>>, neArr |-> <<8663>>,
    nearhk |-> <<10532>>, nearr |-> <<8599>>, nearrow |-> <<8599>>, nedot |-> <<8784,824>>,
    nequiv |-> <<8802>>, nesear |-> <<10536>>, nesim |-> <<8770,824>>, nexist |-> <<8708>>,
    nexists |-> <<8708>>, nfr |-> <<120107>>, ngE |-> <<8807,824>>, nge |-> <<8817>>,
    ngeq |-> <<8817>>, ngeqq |-> <<8807,824>>, ngeqslant |-> <<10878,824>>, nges |-> <<10878,824>>,
    ngsim |-> <<8821>>, ngt |-> <<8815>>, ngtr |-> <<8815>>, nhArr |-> <<8654>>,
    nharr |-> <<8622>>, nhpar |-> <<10994>>, ni |-> <<8715>>, nis |-> <<8956>>,
    nisd |-> <<8954>>, niv |-> <<8715>>, njcy |-> <<1114>>, nlArr |-> <<8653>>,
    nlE |-> <<8806,824>>, nlarr |-> <<8602>>, nldr |-> <<8229>>, nle |-> <<8816>>,
    nleftarrow |-> <<8602>>, nleftrightarrow |-> <<8622>>, nleq |-> <<8816>>, nleqq |-> <<8806,824>>,
    nleqslant |-> <<10877,824>>, nles |-> <<10877,824>>, nless |-> <<8814>>, nlsim |-> <<8820>>,
    nlt |-> <<8814>>, nltri |-> <<8938>>, nltrie |-> <<8940>>, nmid |-> <<8740>>,
    nopf |-> <<120159>>, not |-> <<172>>, notin |-> <<8713>>, notinE |-> <<8953,824>>,
    notindot |-> <<8949,824>>, notinva |-> <<8713>>, notinvb |-> <<8951>>, notinvc |-> <<8950>>,
    notni |-> <<8716>>, notniva |-> <<8716>>, notnivb |-> <<8958>>, notnivc |-> <<8957>>,
    npar |-> <<8742>>, nparallel |-> <<8742>>, nparsl |-> <<11005,8421>>, npart |-> <<8706,824>>,
    npolint |-> <<10772>>, npr |-> <<8832>>, nprcue |-> <<8928>>, npre |-> <<10927,824>>,
    nprec |-> <<8832>>, npreceq |-> <<10927,824>>, nrArr |-> <<8655>>, nrarr |-> <<8603>>,
    nrarrc |-> <<10547,824>>, nrarrw |-> <<8605,824>>, nrightarrow |-> <<8603>>, nrtri |-> <<8939>>,
    nrtrie |-> <<8941>>, nsc |-> <<8833>>, nsccue |-> <<8929>>, nsce |-> <<10928,824>>,
    nscr |-> <<120003>>, nshortmid |-> <<8740>>, nshortparallel |-> <<8742>>, nsim |-> <<8769>>,
    nsime |-> <<8772>>, nsimeq |-> <<8772>>, nsmid |-> <<8740>>, nspar |-> <<8742>>,
    nsqsube |-> <<8930>>, nsqsupe |-> <<8931>>, nsub |-> <<8836>>, nsubE |-> <<10949,824>>,
    nsube |-> <<8840>>, nsubset |-> <<8834,8402>>, nsubseteq |-> <<8840>>, nsubseteqq |-> <<10949,824>>,
    nsucc |-> <<8833>>, nsucceq |-> <<10928,824>>, nsup |-> <<8837>>, nsupE |-> <<10950,824>>,
    nsupe |-> <<8841>>, nsupset |-> <<8835,8402>>, nsupseteq |-> <<8841>>, nsupseteqq |-> <<10950,824>>,
    ntgl |-> <<8825>>, ntilde |-> <<241>>, ntlg |-> <<8824>>, ntriangleleft |-> <<8938>>,
    ntrianglelefteq |-> <<8940>>, ntriangleright |-> <<8939>>, ntrianglerighteq |-> <<8941>>, nu |-> <<957>>,
    num |-> <<35>>, numero |-> <<8470>>, numsp |-> <<8199>>, nvDash |-> <<8877>>,
    nvHarr |-> <<10500>>, nvap |-> <<8781,8402>>, nvdash |-> <<8876>>, nvge |-> <<8805,8402>>,
    nvgt |-> <<62,8402>>, nvinfin |-> <<10718>>, nvlArr |-> <<10498>>, nvle |-> <<8804,8402>>,
    nvlt |-> <<60,8402>>, nvltrie |-> <<8884,8402>>, nvrArr |-> <<10499>>, nvrtrie |-> <<8885,8402>>,
    nvsim |-> <<8764,8402>>, nwArr |-> <<8662>>, nwarhk |-> <<10531>>, nwarr |-> <<8598>>,
    nwarrow |-> <<8598>>, nwnear |-> <<10535>>, oS |-> <<9416>>, oacute |-> <<243>>,
    oast |-> <<8859>>, ocir |-> <<8858>>, ocirc |-> <<244>>, ocy |-> <<1086>>,
    odash |-> <<8861>>, odblac |-> <<337>>, odiv |-> <<10808>>, odot |-> <<8857>>,
    odsold |-> <<10684>>, oelig |-> <<339>>, ofcir |-> <<10687>>, ofr |-> <<120108>>,
    ogon |-> <<731>>, ograve |-> <<242>>, ogt |-> <<10689>>, ohbar |-> <<10677>>,
    ohm |-> <<937>>, oint |-> <<8750>>, olarr |-> <<8634>>, olcir |-> <<10686>>,
    olcross |-> <<10683>>, oline |-> <<8254>>, olt |-> <<10688>>, omacr |-> <<333>>,
    omega |-> <<969>>, omicron |-> <<959>>, omid |-> <<10678>>, ominus |-> <<8854>>,
    oopf |-> <<120160>>, opar |-> <<10679>>, operp |-> <<10681>>, oplus |-> <<8853>>,
    or |-> <<8744>>, orarr |-> <<8635>>, ord |-> <<10845>>, order |-> <<8500>>,
    orderof |-> <<8500>>, ordf |-> <<170>>, ordm |-> <<186>>, origof |-> <<8886>>,
    oror |-> <<10838>>, orslope |-> <<10839>>, orv |-> <<10843>>, oscr |-> <<8500>>,
    oslash |-> <<248>>, osol |-> <<8856>>, otilde |-> <<245>>, otimes |-> <<8855>>,
    otimesas |-> <<10806>>, ouml |-> <<246>>, ovbar |-> <<9021>>, par |-> <<8741>>,
    para |-> <<182>>, parallel |-> <<8741>>, parsim |-> <<10995>>, parsl |-> <<11005>>,
    part |-> <<8706>>, pcy |-> <<1087>>, percnt |-> <<37>>, period |-> <<46>>,
    permil |-> <<8240>>, perp |-> <<8869>>, pertenk |-> <<8241>>, pfr |-> <<120109>>,
    phi |-> <<966>>, phiv |-> <<981>>, phmmat |-> <<8499>>, phone |-> <<9742>>,
    pi |-> <<960>>, pitchfork |-> <<8916>>, piv |-> <<982>>, planck |-> <<8463>>,
    planckh |-> <<8462>>, plankv |-> <<8463>>, plus |-> <<43>>, plusacir |-> <<10787>>,
    plusb |-> <<8862>>, pluscir |-> <<10786>>, plusdo |-> <<8724>>, plusdu |-> <<10789>>,
    pluse |-> <<10866>>, plusmn |-> <<177>>, plussim |-> <<10790>>, plustwo |-> <<10791>>,
    pm |-> <<177>>, pointint |-> <<10773>>, popf |-> <<120161>>, pound |-> <<163>>,
    pr |-> <<8826>>, prE |-> <<10931>>, prap |-> <<10935>>, prcue |-> <<8828>>,
    pre |-> <<10927>>, prec |-> <<8826>>, precapprox |-> <<10935>>, preccurlyeq |-> <<8828>>,
    preceq |-> <<10927>>, precnapprox |-> <<10937>>, precneqq |-> <<10933>>, precnsim |-> <<8936>>,
    precsim |-> <<8830>>, prime |-> <<8242>>, primes |-> <<8473>>, prnE |-> <<10933>>,
    prnap |-> <<10937>>, prnsim |-> <<8936>>, prod |-> <<8719>>, profalar |-> <<9006>>,
    profline |-> <<8978>>, profsurf |-> <<8979>>, prop |-> <<8733>>, propto |-> <<8733>>,
    prsim |-> <<8830>>, prurel |-> <<8880>>, pscr |-> <<120005>>, psi |-> <<968>>,
    puncsp |-> <<8200>>, qfr |-> <<120110>>, qint |-> <<10764>>, qopf |-> <<120162>>,
    qprime |-> <<8279>>, qscr |-> <<120006>>, quaternions |-> <<8461>>, quatint |-> <<10774>>,
    quest |-> <<63>>, questeq |-> <<8799>>, quot |-> <<34>>, rAarr |-> <<8667>>,
    rArr |-> <<8658>>, rAtail |-> <<10524>>, rBarr |-> <<10511>>, rHar |-> <<10596>>,
    race |-> <<8765,817>>, racute |-> <<341>>, radic |-> <<8730>>, raemptyv |-> <<10675>>,
    rang |-> <<10217>>, rangd |-> <<10642>>, range |-> <<10661>>, rangle |-> <<10217>>,
    raquo |-> <<187>>, rarr |-> <<8594>>, rarrap |-> <<10613>>, rarrb |-> <<8677>>,
    rarrbfs |-> <<10528>>, rarrc |-> <<10547>>, rarrfs |-> <<10526>>, rarrhk |-> <<8618>>,
    rarrlp |-> <<8620>>, rarrpl |-> <<10565>>, rarrsim |-> <<10612>>, rarrtl |-> <<8611>>,
    rarrw |-> <<8605>>, ratail |-> <<10522>>, ratio |-> <<8758>>, rationals |-> <<8474>>,
    rbarr |-> <<10509>>, rbbrk |-> <<10099>>, rbrace |-> <<125>>, rbrack |-> <<93>>,
    rbrke |-> <<10636>>, rbrksld |-> <<10638>>, rbrkslu |-> <<10640>>, rcaron |-> <<345>>,
    rcedil |-> <<343>>, rceil |-> <<8969>>, rcub |-> <<125>>, rcy |-> <<1088>>,
    rdca |-> <<10551>>, rdldhar |-> <<10601>>, rdquo |-> <<8221>>, rdquor |-> <<8221>>,
    rdsh |-> <<8627>>, real |-> <<8476>>, realine |-> <<8475>>, realpart |-> <<8476>>,
    reals |-> <<8477>>, rect |-> <<9645>>, reg |-> <<174>>, rfisht |-> <<10621>>,
    rfloor |-> <<8971>>, rfr |-> <<120111>>, rhard |-> <<8641>>, rharu |-> <<8640>>,
    rharul |-> <<10604>>, rho |-> <<961>>, rhov |-> <<1009>>, rightarrow |-> <<8594>>,
    rightarrowtail |-> <<8611>>, rightharpoondown |-> <<8641>>, rightharpoonup |-> <<8640>>, rightleftarrows |-> <<8644>>,
    rightleftharpoons |-> <<8652>>, rightrightarrows |-> <<8649>>, rightsquigarrow |-> <<8605>>, rightthreetimes |-> <<8908>>,
    ring |-> <<730>>, risingdotseq |-> <<8787>>, rlarr |-> <<8644>>, rlhar |-> <<8652>>,
    rlm |-> <<8207>>, rmoust |-> <<9137>>, rmoustache |-> <<9137>>, rnmid |-> <<10990>>,
    roang |-> <<10221>>, roarr |-> <<8702>>, robrk |-> <<10215>>, ropar |-> <<10630>>,
    ropf |-> <<120163>>, roplus |-> <<10798>>, rotimes |-> <<10805>>, rpar |-> <<41>>,
    rpargt |-> <<10644>>, rppolint |-> <<10770>>, rrarr |-> <<8649>>, rsaquo |-> <<8250>>,
    rscr |-> <<120007>>, rsh |-> <<8625>>, rsqb |-> <<93>>, rsquo |-> <<8217>>,
    rsquor |-> <<8217>>, rthree |-> <<8908>>, rtimes |-> <<8906>>, rtri |-> <<9657>>,
    rtrie |-> <<8885>>, rtrif |-> <<9656>>, rtriltri |-> <<10702>>, ruluhar |-> <<10600>>,
    rx |-> <<8478>>, sacute |-> <<347>>, sbquo |-> <<8218>>, sc |-> <<8827>>,
    scE |-> <<10932>>, scap |-> <<10936>>, scaron |-> <<353>>, sccue |-> <<8829>>,
    sce |-> <<10928>>, scedil |-> <<351>>, scirc |-> <<349>>, scnE |-> <<10934>>,
    scnap |-> <<10938>>, scnsim |-> <<8937>>, scpolint |-> <<10771>>, scsim |-> <<8831>>,
    scy |-> <<1089>>, sdot |-> <<8901>>, sdotb |-> <<8865>>, sdote |-> <<10854>>,
    seArr |-> <<8664>>, searhk |-> <<10533>>, searr |-> <<8600>>, searrow |-> <<8600>>,
    sect |-> <<167>>, semi |-> <<59>>, seswar |-> <<10537>>, setminus |-> <<8726>>,
    setmn |-> <<8726>>, sext |-> <<10038>>, sfr |-> <<120112>>, sfrown |-> <<8994>>,
    sharp |-> <<9839>>, shchcy |-> <<1097>>, shcy |-> <<1096>>, shortmid |-> <<8739>>,
    shortparallel |-> <<8741>>, shy |-> <<173>>, sigma |-> <<963>>, sigmaf |-> <<962>>,
    sigmav |-> <<962>>, sim |-> <<8764>>, simdot |-> <<10858>>, sime |-> <<8771>>,
    simeq |-> <<8771>>, simg |-> <<10910>>, simgE |-> <<10912>>, siml |-> <<10909>>,
    simlE |-> <<10911>>, simne |-> <<8774>>, simplus |-> <<10788>>, simrarr |-> <<10610>>,
    slarr |-> <<8592>>, smallsetminus |-> <<8726>>, smashp |-> <<10803>>, smeparsl |-> <<10724>>,
    smid |-> <<8739>>, smile |-> <<8995>>, smt |-> <<10922>>, smte |-> <<10924>>,
    smtes |-> <<10924,65024>>, softcy |-> <<1100>>, sol |-> <<47>>, solb |-> <<10692>>,
    solbar |-> <<9023>>, sopf |-> <<120164>>, spades |-> <<9824>>, spadesuit |-> <<9824>>,
    spar |-> <<8741>>, sqcap |-> <<8851>>, sqcaps |-> <<8851,65024>>, sqcup |-> <<8852>>,
    sqcups |-> <<8852,65024>>, sqsub |-> <<8847>>, sqsube |-> <<8849>>, sqsubset |-> <<8847>>,
    sqsubseteq |-> <<8849>>, sqsup |-> <<8848>>, sqsupe |-> <<8850>>, sqsupset |-> <<8848>>,
    sqsupseteq |-> <<8850>>, squ |-> <<9633>>, square |-> <<9633>>, squarf |-> <<9642>>,
    squf |-> <<9642>>, srarr |-> <<8594>>, sscr |-> <<120008>>, ssetmn |-> <<8726>>,
    ssmile |-> <<8995>>, sstarf |-> <<8902>>, star |-> <<9734>>, starf |-> <<9733>>,
    straightepsilon |-> <<1013>>, straightphi |-> <<981>>, strns |-> <<175>>, sub |-> <<8834>>,
    subE |-> <<10949>>, subdot |-> <<10941>>, sube |-> <<8838>>, subedot |-> <<10947>>,
    submult |-> <<10945>>, subnE |-> <<10955>>, subne |-> <<8842>>, subplus |-> <<10943>>,
    subrarr |-> <<10617>>, subset |-> <<8834>>, subseteq |-> <<8838>>, subseteqq |-> <<10949>>,
    subsetneq |-> <<8842>>, subsetneqq |-> <<10955>>, subsim |-> <<10951>>, subsub |-> <<10965>>,
    subsup |-> <<10963>>, succ |-> <<8827>>, succapprox |-> <<10936>>, succcurlyeq |-> <<8829>>,
    succeq |-> <<10928>>, succnapprox |-> <<10938>>, succneqq |-> <<10934>>, succnsim |-> <<8937>>,
    succsim |-> <<8831>>, sum |-> <<8721>>, sung |-> <<9834>>, sup |-> <<8835>>,
    sup1 |-> <<185>>, sup2 |-> <<178>>, sup3 |-> <<179>>, supE |-> <<10950>>,
    supdot |-> <<10942>>, supdsub |-> <<10968>>, supe |-> <<8839>>, supedot |-> <<10948>>,
    suphsol |-> <<10185>>, suphsub |-> <<10967>>, suplarr |-> <<10619>>, supmult |-> <<10946>>,
    supnE |-> <<10956>>, supne |-> <<8843>>, supplus |-> <<10944>>, supset |-> <<8835>>,
    supseteq |-> <<8839>>, supseteqq |-> <<10950>>, supsetneq |-> <<8843>>, supsetneqq |-> <<10956>>,
    supsim |-> <<10952>>, supsub |-> <<10964>>, supsup |-> <<10966>>, swArr |-> <<8665>>,
    swarhk |-> <<10534>>, swarr |-> <<8601>>, swarrow |-> <<8601>>, swnwar |-> <<10538>>,
    szlig |-> <<223>>, target |-> <<8982>>, tau |-> <<964>>, tbrk |-> <<9140>>,
    tcaron |-> <<357>>, tcedil |-> <<355>>, tcy |-> <<1090>>, tdot |-> <<8411>>,
    telrec |-> <<8981>>, tfr |-> <<120113>>, there4 |-> <<8756>>, therefore |-> <<8756>>,
    theta |-> <<952>>, thetasym |-> <<977>>, thetav |-> <<977>>, thickapprox |-> <<8776>>,
    thicksim |-> <<8764>>, thinsp |-> <<8201>>, thkap |-> <<8776>>, thksim |-> <<8764>>,
    thorn |-> <<254>>, tilde |-> <<732>>, times |-> <<215>>, timesb |-> <<8864>>,
    timesbar |-> <<10801>>, timesd |-> <<10800>>, tint |-> <<8749>>, toea |-> <<10536>>,
    top |-> <<8868>>, topbot |-> <<9014>>, topcir |-> <<10993>>, topf |-> <<120165>>,
    topfork |-> <<10970>>, tosa |-> <<10537>>, tprime |-> <<8244>>, trade |-> <<8482>>,
    triangle |-> <<9653>>, triangledown |-> <<9663>>, triangleleft |-> <<9667>>, trianglelefteq |-> <<8884>>,
    triangleq |-> <<8796>>, triangleright |-> <<9657>>, trianglerighteq |-> <<8885>>, tridot |-> <<9708>>,
    trie |-> <<8796>>, triminus |-> <<10810>>, triplus |-> <<10809>>, trisb |-> <<10701>>,
    tritime |-> <<10811>>, trpezium |-> <<9186>>, tscr |-> <<120009>>, tscy |-> <<1094>>,
    tshcy |-> <<1115>>, tstrok |-> <<359>>, twixt |-> <<8812>>, twoheadleftarrow |-> <<8606>>,
    twoheadrightarrow |-> <<8608>>, uArr |-> <<8657>>, uHar |-> <<10595>>, uacute |-> <<250>>,
    uarr |-> <<8593>>, ubrcy |-> <<1118>>, ubreve |-> <<365>>, ucirc |-> <<251>>,
    ucy |-> <<1091>>, udarr |-> <<8645>>, udblac |-> <<369>>, udhar |-> <<10606>>,
    ufisht |-> <<10622>>, ufr |-> <<120114>>, ugrave |-> <<249>>, uharl |-> <<8639>>,
    uharr |-> <<8638>>, uhblk |-> <<9600>>, ulcorn |-> <<8988>>, ulcorner |-> <<8988>>,
    ulcrop |-> <<8975>>, ultri |-> <<9720>>, umacr |-> <<363>>, uml |-> <<168>>,
    uogon |-> <<371>>, uopf |-> <<120166>>, uparrow |-> <<8593>>, updownarrow |-> <<8597>>,
    upharpoonleft |-> <<8639>>, upharpoonright |-> <<8638>>, uplus |-> <<8846>>, upsi |-> <<965>>,
    upsih |-> <<978>>, upsilon |-> <<965>>, upuparrows |-> <<8648>>, urcorn |-> <<8989>>,
    urcorner |-> <<8989>>, urcrop |-> <<8974>>, uring |-> <<367>>, urtri |-> <<9721>>,
    uscr |-> <<120010>>, utdot |-> <<8944>>, utilde |-> <<361>>, utri |-> <<9653>>,
    utrif |-> <<9652>>, uuarr |-> <<8648>>, uuml |-> <<252>>, uwangle |-> <<10663>>,
    vArr |-> <<8661>>, vBar |-> <<10984>>, vBarv |-> <<10985>>, vDash |-> <<8872>>,
    vangrt |-> <<10652>>, varepsilon |-> <<1013>>, varkappa |-> <<1008>>, varnothing |-> <<8709>>,
    varphi |-> <<981>>, varpi |-> <<982>>, varpropto |-> <<8733>>, varr |-> <<8597>>,
    varrho |-> <<1009>>, varsigma |-> <<962>>, varsubsetneq |-> <<8842,65024>>, varsubsetneqq |-> <<10955,65024>>,
    varsupsetneq |-> <<8843,65024>>, varsupsetneqq |-> <<10956,65024>>, vartheta |-> <<977>>, vartriangleleft |-> <<8882>>,
    vartriangleright |-> <<8883>>, vcy |-> <<1074>>, vdash |-> <<8866>>, vee |-> <<8744>>,
    veebar |-> <<8891>>, veeeq |-> <<8794>>, vellip |-> <<8942>>, verbar |-> <<124>>,
    vert |-> <<124>>, vfr |-> <<120115>>, vltri |-> <<8882>>, vnsub |-> <<8834,8402>>,
    vnsup |-> <<8835,8402>>, vopf |-> <<120167>>, vprop |-> <<8733>>, vrtri |-> <<8883>>,
    vscr |-> <<120011>>, vsubnE |-> <<10955,65024>>, vsubne |-> <<8842,65024>>, vsupnE |-> <<10956,65024>>,
    vsupne |-> <<8843,65024>>, vzigzag |-> <<10650>>, wcirc |-> <<373>>, wedbar |-> <<10847>>,
    wedge |-> <<8743>>, wedgeq |-> <<8793>>, weierp |-> <<8472>>, wfr |-> <<120116>>,
    wopf |-> <<120168>>, wp |-> <<8472>>, wr |-> <<8768>>, wreath |-> <<8768>>,
    wscr |-> <<120012>>, xcap |-> <<8898>>, xcirc |-> <<9711>>, xcup |-> <<8899>>,
    xdtri |-> <<9661>>, xfr |-> <<120117>>, xhArr |-> <<10234>>, xharr |-> <<10231>>,
    xi |-> <<958>>, xlArr |-> <<10232>>, xlarr |-> <<10229>>, xmap |-> <<10236>>,
    xnis |-> <<8955>>, xodot |-> <<10752>>, xopf |-> <<120169>>, xoplus |-> <<10753>>,
    xotime |-> <<10754>>, xrArr |-> <<10233>>, xrarr |-> <<10230>>, xscr |-> <<120013>>,
    xsqcup |-> <<10758>>, xuplus |-> <<10756>>, xutri |-> <<9651>>, xvee |-> <<8897>>,
    xwedge |-> <<8896>>, yacute |-> <<253>>, yacy |-> <<1103>>, ycirc |-> <<375>>,
    ycy |-> <<1099>>, yen |-> <<165>>, yfr |-> <<120118>>, yicy |-> <<1111>>,
    yopf |-> <<120170>>, yscr |-> <<120014>>, yucy |-> <<1102>>, yuml |-> <<255>>,
    zacute |-> <<378>>, zcaron |-> <<382>>, zcy |-> <<1079>>, zdot |-> <<380>>,
    zeetrf |-> <<8488>>, zeta |-> <<950>>, zfr |-> <<120119>>, zhcy |-> <<1078>>,
    zigrarr |-> <<8669>>, zopf |-> <<120171>>, zscr |-> <<120015>>, zwj |-> <<8205>>,
    zwnj |-> <<8204>> ]

\* the names of html5 that are also references without the ";"
Html5NoSemicolon == {
    "AElig", "AMP", "Aacute", "Acirc", "Agrave", "Aring", "Atilde", "Auml", "COPY", "Ccedil",
    "ETH", "Eacute", "Ecirc", "Egrave", "Euml", "GT", "Iacute", "Icirc", "Igrave", "Iuml",
    "LT", "Ntilde", "Oacute", "Ocirc", "Ograve", "Oslash", "Otilde", "Ouml", "QUOT", "REG",
    "THORN", "Uacute", "Ucirc", "Ugrave", "Uuml", "Yacute", "aacute", "acirc", "acute", "aelig",
    "agrave", "amp", "aring", "atilde", "auml", "brvbar", "ccedil", "cedil", "cent", "copy",
    "curren", "deg", "divide", "eacute", "ecirc", "egrave", "eth", "euml", "frac12", "frac14",
    "frac34", "gt", "iacute", "icirc", "iexcl", "igrave", "iquest", "iuml", "laquo", "lt",
    "macr", "micro", "middot", "nbsp", "not", "ntilde", "oacute", "ocirc", "ograve", "ordf",
    "ordm", "oslash", "otilde", "ouml", "para", "plusmn", "pound", "quot", "raquo", "reg",
    "sect", "shy", "sup1", "sup2", "sup3", "szlig", "thorn", "times", "uacute", "ucirc",
    "ugrave", "uml", "uuml", "yacute", "yen", "yuml" }

Digits == {"0","1","2","3","4","5","6","7","8","9"}
HexChars == Digits \cup {"a","b","c","d","e","f","A","B","C","D","E","F"}
\* [^\t\n\f <&#;]
NameStops == {"\t", "\n", "\f", " ", "<", "&", "#", ";"}
MaxNameLen == 32             \* {1,32}
MaxCodePoint == 1114111      \* 0x10FFFF
IntMaxStrDigits == 4300      \* sys.int_info.default_max_str_digits

RECURSIVE Join(_)
Join(chars) == IF chars = << >> THEN "" ELSE Head(chars) \o Join(Tail(chars))

\* the index at which the longest run of characters of a class ends that
\* starts at index from and is at most max long, given the indexes from
\* from on of the characters outside the class; from - 1 or less for no run
RunEnd(text, from, stops, max) ==
    LET end == IF stops = {} THEN Len(text)
               ELSE (CHOOSE j \in stops : \A k \in stops : j <= k) - 1
    IN Min(end, from + max - 1)

\* the indexes from from on of the characters of text outside class
Outside(text, from, class) == {j \in from..Len(text) : text[j] \notin class}

\* text[a] = "&": the index at which the match of
\* &(#[0-9]+;?|#[xX][0-9a-fA-F]+;?|[^\t\n\f <&#;]{1,32};?) at a ends, or 0
CharrefEnd(text, a) ==
    LET n == Len(text)
        at(i) == IF i <= n THEN text[i] ELSE ""
        semi(e) == IF at(e + 1) = ";" THEN e + 1 ELSE e
        dec == RunEnd(text, a + 2, Outside(text, a + 2, Digits), n)
        hex == RunEnd(text, a + 3, Outside(text, a + 3, HexChars), n)
        name == RunEnd(text, a + 1, {j \in (a + 1)..n : text[j] \in NameStops},
                       MaxNameLen)
    IN IF at(a + 1) = "#"
       THEN IF dec >= a + 2 THEN semi(dec)
            ELSE IF at(a + 2) \in {"x", "X"} /\ hex >= a + 3 THEN semi(hex)
            ELSE 0
       ELSE IF name >= a + 1 THEN semi(name) ELSE 0

HexLower == <<"0","1","2","3","4","5","6","7","8","9","a","b","c","d","e","f">>
DigitValue(c) == CHOOSE v \in 0..15 : c \in {HexUpper[v + 1], HexLower[v + 1]}

RECURSIVE NumberOf(_, _)
NumberOf(digits, base) ==
    IF digits = << >> THEN 0
    ELSE NumberOf(SubSeq(digits, 1, Len(digits) - 1), base) * base
            + DigitValue(digits[Len(digits)])

\* int(digits, base), or MaxCodePoint + 1 for every number beyond MaxCodePoint
Number(digits, base) ==
    LET nonzero == {i \in 1..Len(digits) : digits[i] # "0"}
        first == CHOOSE i \in nonzero : \A k \in nonzero : i <= k
        significant == IF nonzero = {} THEN << >> ELSE SubSeq(digits, first, Len(digits))
    IN IF Len(significant) > 7 THEN MaxCodePoint + 1
       ELSE Min(NumberOf(significant, base), MaxCodePoint + 1)

\* name, a sequence of characters, is a key of html5
IsReference(name) ==
    \/ Join(name) \in Html5NoSemicolon
    \/ /\ name # << >>
       /\ name[Len(name)] = ";"
       /\ Join(SubSeq(name, 1, Len(name) - 1)) \in DOMAIN Html5

\* html5[name]
ReferenceValue(name) ==
    LET bare == IF name[Len(name)] = ";" THEN SubSeq(name, 1, Len(name) - 1) ELSE name
        chars(codes) == [k \in 1..Len(codes) |-> Chr(codes[k])]
    IN chars(Html5[Join(bare)])

\* html._replace_charref: s is what follows the "&" in the match
ReplaceCharref(s) ==
    LET body == IF s[Len(s)] = ";" THEN SubSeq(s, 1, Len(s) - 1) ELSE s
        num == IF body[2] \in {"x", "X"}
               THEN Number(SubSeq(body, 3, Len(body)), 16)
               ELSE Number(SubSeq(body, 2, Len(body)), 10)
        invalid == {k \in 1..Len(InvalidCharrefs) : InvalidCharrefs[k][1] = num}
        \* for x in range(len(s)-1, 1, -1): if s[:x] in html5
        longest(prefixes) ==
            IF prefixes = {} THEN <<"&">> \o s
            ELSE LET x == CHOOSE x \in prefixes : \A y \in prefixes : y <= x
                 IN ReferenceValue(SubSeq(s, 1, x)) \o SubSeq(s, x + 1, Len(s))
    IN IF s[1] = "#"
       THEN IF invalid # {} THEN <<Chr(InvalidCharrefs[CHOOSE k \in invalid : TRUE][2])>>
            ELSE IF num \in 55296..57343 \/ num > MaxCodePoint THEN <<"U+FFFD">>
            ELSE IF \E k \in 1..Len(InvalidCodepoints) :
                       num \in InvalidCodepoints[k][1]..InvalidCodepoints[k][2]
                 THEN << >>
            ELSE <<Chr(num)>>
       ELSE IF IsReference(s) THEN ReferenceValue(s)
       ELSE longest({x \in 2..(Len(s) - 1) : IsReference(SubSeq(s, 1, x))})

\* _charref.sub(_replace_charref, s), from index i on
RECURSIVE UnescapeFrom(_, _)
UnescapeFrom(text, i) ==
    LET amps == {j \in i..Len(text) : text[j] = "&"}
        a == CHOOSE j \in amps : \A k \in amps : j <= k
        e == CharrefEnd(text, a)
    IN IF amps = {} THEN SubSeq(text, i, Len(text))
       ELSE IF e = 0 THEN SubSeq(text, i, a) \o UnescapeFrom(text, a + 1)
       ELSE SubSeq(text, i, a - 1) \o ReplaceCharref(SubSeq(text, a + 1, e))
               \o UnescapeFrom(text, e + 1)

\* html.unescape
Unescape(text) == UnescapeFrom(text, 1)

\* int() refuses a decimal string of more than IntMaxStrDigits digits
\* (ValueError): a decimal reference with that many digits makes unescape raise
UnescapeRaises(text) ==
    \E a \in 1..Len(text) :
        /\ text[a] = "&"
        /\ a < Len(text)
        /\ text[a + 1] = "#"
        /\ RunEnd(text, a + 2, Outside(text, a + 2, Digits), Len(text)) - (a + 1)
              > IntMaxStrDigits

\* re.sub(r'\s+', ' ', clean): one space for every run of whitespace
CollapseWs(text) ==
    LET inRun == {i \in 1..Len(text) :
                     text[i] \in Whitespace /\ i < Len(text) /\ text[i + 1] \in Whitespace}
        one == Without(text, inRun)
    IN [k \in 1..Len(one) |-> IF one[k] \in Whitespace THEN " " ELSE one[k]]

\* str.strip() of text whose whitespace runs are already single spaces
Strip(text) ==
    LET a == IF text # << >> /\ Head(text) = " " THEN Tail(text) ELSE text
    IN IF a # << >> /\ a[Len(a)] = " " THEN SubSeq(a, 1, Len(a) - 1) ELSE a

\* a normalizer that also cuts a cleaned text of exactly 500 characters
clean_html_at_limit(text) ==
    IF text = << >> THEN << >>
    ELSE LET cut(clean) == IF Len(clean) >= CleanLimit
                           THEN Prefix(clean, CleanLimit) \o <<".", ".", ".">>
                           ELSE clean
         IN cut(Strip(CollapseWs(Unescape(StripTags(text)))))

clean_html(text) ==
    IF text = << >> THEN << >>      \* if not text: return ""
    ELSE LET \* if len(clean) > 500: clean = clean[:500] + "..."
             cut(clean) == IF Len(clean) > CleanLimit
                           THEN Prefix(clean, CleanLimit) \o <<".", ".", ".">>
                           ELSE clean
         IN cut(Strip(CollapseWs(Unescape(StripTags(text)))))

-----------------------------------------------------------------------------
(* Categorizer *)

NEWS_CATEGORIES == <<
    [id |-> "vehicles", keywords |-> <<
        <<"f","a","h","r","z","e","u","g">>,
        <<"v","e","h","i","c","l","e">>,
        <<"a","u","t","o">>,
        <<"c","a","r">>,
        <<"m","o","d","e","l">>,
        <<"m","o","d","e","l","l">>,
        <<"e","v">>,
        <<"e","l","e","k","t","r","o","a","u","t","o">>,
        <<"a","u","t","o","m","o","b","i","l">>,
        <<"v","o","z","i","l","o">> >>],
    [id |-> "battery", keywords |-> <<
        <<"b","a","t","t","e","r","i","e">>,
        <<"b","a","t","t","e","r","y">>,
        <<"a","k","k","u">>,
        <<"z","e","l","l","e">>,
        <<"c","e","l","l">>,
        <<"r","e","i","c","h","w","e","i","t","e">>,
        <<"r","a","n","g","e">>,
        <<"d","e","g","r","a","d","a","t","i","o","n">>,
        <<"l","e","b","e","n","s","d","a","u","e","r">>,
        <<"b","a","t","e","r","i","j","a">> >>],
    [id |-> "charging", keywords |-> <<
        <<"l","a","d","e","n">>,
        <<"c","h","a","r","g","i","n","g">>,
        <<"l","a","d","e","s","t","a","t","i","o","n">>,
        <<"c","h","a","r","g","e","r">>,
        <<"l","a","d","e","s","U+00C3","U+00A4","u","l","e">>,
        <<"w","a","l","l","b","o","x">>,
        <<"s","c","h","n","e","l","l","l","a","d","e","n">>,
        <<"d","c">>,
        <<"a","c">>,
        <<"p","u","n","j","e","n","j","e">>,
        <<"p","u","n","j","a","U+00C4">> >>],
    [id |-> "policy", keywords |-> <<
        <<"f","U+00C3","U+00B6","r","d","e","r","u","n","g">>,
        <<"s","u","b","s","i","d","y">>,
        <<"g","e","s","e","t","z">>,
        <<"l","a","w">>,
        <<"r","e","g","u","l","i","e","r","u","n","g">>,
        <<"r","e","g","u","l","a","t","i","o","n">>,
        <<"s","t","e","u","e","r">>,
        <<"t","a","x">>,
        <<"p","o","l","i","t","i","k">>,
        <<"p","o","l","i","c","y">>,
        <<"z","a","k","o","n">>,
        <<"p","o","t","i","c","a","j">> >>],
    [id |-> "market", keywords |-> <<
        <<"m","a","r","k","t">>,
        <<"m","a","r","k","e","t">>,
        <<"v","e","r","k","a","u","f">>,
        <<"s","a","l","e","s">>,
        <<"z","u","l","a","s","s","u","n","g">>,
        <<"r","e","g","i","s","t","r","a","t","i","o","n">>,
        <<"s","t","a","t","i","s","t","i","k">>,
        <<"s","t","a","t","i","s","t","i","c">>,
        <<"p","r","e","i","s">>,
        <<"p","r","i","c","e">>,
        <<"t","r","U+00C5","U+00BE","i","U+00C5","U+00A1","t","e">> >>],
    [id |-> "technology", keywords |-> <<
        <<"t","e","c","h","n","o","l","o","g","i","e">>,
        <<"t","e","c","h","n","o","l","o","g","y">>,
        <<"u","p","d","a","t","e">>,
        <<"s","o","f","t","w","a","r","e">>,
        <<"o","t","a">>,
        <<"a","u","t","o","p","i","l","o","t">>,
        <<"f","s","d">>,
        <<"t","u","n","i","n","g">>,
        <<"u","p","g","r","a","d","e">>,
        <<"t","e","h","n","o","l","o","g","i","j","a">> >>],
    [id |-> "infrastructure", keywords |-> <<
        <<"i","n","f","r","a","s","t","r","u","k","t","u","r">>,
        <<"i","n","f","r","a","s","t","r","u","c","t","u","r","e">>,
        <<"n","e","t","z","w","e","r","k">>,
        <<"n","e","t","w","o","r","k">>,
        <<"a","u","s","b","a","u">>,
        <<"e","x","p","a","n","s","i","o","n">>,
        <<"s","t","r","o","m">>,
        <<"g","r","i","d">>,
        <<"m","r","e","U+00C5","U+00BE","a">> >>] >>

\* keyword in text
Contains(text, keyword) ==
    \/ keyword = << >>
    \/ \E i \in 1..(Len(text) - Len(keyword) + 1) :
          /\ text[i] = keyword[1]
          /\ SubSeq(text, i, i + Len(keyword) - 1) = keyword

\* a categorizer that joins title and summary without the space
CategorizeTextNoSpace(title, summary) == Lower(title \o summary)

\* text = (title + " " + summary).lower()
CategorizeText(title, summary) == Lower(title \o <<" ">> \o summary)

\* for cat, keywords in NEWS_CATEGORIES.items(): append cat at its first
\* keyword found in text; ["general"] when nothing was appended
categorize_article(title, summary) ==
    LET categories(text) ==
            LET letters == {text[i] : i \in 1..Len(text)}
                \* keyword in text; a keyword whose first letter text lacks is not
                found(keyword) == keyword[1] \in letters /\ Contains(text, keyword)
                matched == SelectSeq(NEWS_CATEGORIES,
                                     LAMBDA cat : \E k \in 1..Len(cat.keywords) :
                                                      found(cat.keywords[k]))
            IN IF matched = << >> THEN <<"general">>
               ELSE [i \in 1..Len(matched) |-> matched[i].id]
    IN categories(CategorizeText(title, summary))

-----------------------------------------------------------------------------
(* Single-feed fetcher *)

Absent == -1            \* the entry has no such time tuple (or it is falsy)
Invalid == -2           \* a time tuple datetime(...) rejects
NoLink == "absent"      \* the entry has no link

KeinTitel == <<"K","e","i","n"," ","T","i","t","e","l">>

\* datetime(*parsed[:6]), a time without microseconds, and the except:
\* branches of the date parsing, which fall back to the clock, read at t
ParsedOrNow(parsed, t) == IF parsed = Invalid THEN t ELSE Minutes(parsed)

\* a resolution that prefers the updated time tuple
PubDateUpdatedFirst(entry, t) ==
    IF entry.updated_parsed # Absent THEN ParsedOrNow(entry.updated_parsed, t)
    ELSE IF entry.published_parsed # Absent THEN ParsedOrNow(entry.published_parsed, t)
    ELSE t

\* pub_date of one entry: published_parsed, else updated_parsed, else the
\* clock, read at t
PubDate(entry, t) ==
    IF entry.published_parsed # Absent THEN ParsedOrNow(entry.published_parsed, t)
    ELSE IF entry.updated_parsed # Absent THEN ParsedOrNow(entry.updated_parsed, t)
    ELSE t

\* the date parsing of the entry calls datetime.now(timezone.utc): in an
\* except: branch, or in the else: branch of an entry without time tuples
ReadsClock(entry) ==
    IF entry.published_parsed # Absent THEN entry.published_parsed = Invalid
    ELSE IF entry.updated_parsed # Absent THEN entry.updated_parsed = Invalid
    ELSE TRUE

\* clean_html(text) raises: unescape raises on the text without its tags
CleanRaises(text) ==
    Len(text) > IntMaxStrDigits /\ UnescapeRaises(StripTags(text))

\* the statements of the loop body that can raise: clean_html of the summary
\* and of the title, and link.encode() in generate_article_id
EntryRaises(entry) ==
    \/ entry.has_summary /\ CleanRaises(entry.summary)
    \/ ~entry.has_summary /\ entry.has_description /\ CleanRaises(entry.description)
    \/ entry.has_title /\ CleanRaises(entry.title)
    \/ entry.link = SurrogateLink

\* summary: clean_html of entry.summary, else of entry.description, else ""
Summary(entry) ==
    IF entry.has_summary THEN clean_html(entry.summary)
    ELSE IF entry.has_description THEN clean_html(entry.description)
    ELSE << >>

NoImage == "none"                         \* image_url = None
Image == <<"i","m","a","g","e">>

\* text.startswith(prefix)
StartsWith(text, prefix) ==
    Len(text) >= Len(prefix) /\ SubSeq(text, 1, Len(prefix)) = prefix

\* the href of the first enclosure whose type starts with "image": the type
\* is a text, empty when the enclosure has none
EnclosureImage(enclosures) ==
    LET images == {i \in 1..Len(enclosures) : StartsWith(enclosures[i].type, Image)}
    IN IF images = {} THEN NoImage
       ELSE enclosures[CHOOSE i \in images : \A k \in images : i <= k].href

\* image_url: the url of the first media_content, else of an image enclosure
ImageUrl(entry) ==
    IF entry.media_content # << >> THEN entry.media_content[1].url
    ELSE IF entry.enclosures # << >> THEN EnclosureImage(entry.enclosures)
    ELSE NoImage

\* the article dict built for one entry
BuildArticle(cfg, entry, t) ==
    LET link == IF entry.link = NoLink THEN "" ELSE entry.link
        article(title, summary) ==
            [id         |-> ArticleIdOf(link),
             title      |-> title,
             summary    |-> summary,
             url        |-> link,
             source     |-> cfg.name,
             language   |-> cfg.lang,
             region     |-> cfg.region,
             published  |-> IsoFormat(PubDate(entry, t)),
             image_url  |-> ImageUrl(entry),
             categories |-> categorize_article(title, summary)]
    IN article(clean_html(IF entry.has_title THEN entry.title ELSE KeinTitel),
               Summary(entry))

\* for entry in feed.entries[:10], inside the try, the clock having been
\* read at t for the last time: an entry whose date parsing reads the clock
\* reads it one microsecond later than the reading before, an entry that
\* raises ends the loop, and the articles appended before it are what is
\* returned
RECURSIVE ParseEntries(_, _, _)
ParseEntries(cfg, entries, t) ==
    IF entries = << >> \/ EntryRaises(Head(entries)) THEN << >>
    ELSE LET rest(read) ==
                 <<BuildArticle(cfg, Head(entries), read)>>
                     \o ParseEntries(cfg, Tail(entries), read)
         IN rest(IF ReadsClock(Head(entries)) THEN t + 1 ELSE t)

\* the calls of datetime.now(timezone.utc) in the loop over entries: the
\* date of an entry is parsed before the statements that can raise
RECURSIVE ClockReadings(_)
ClockReadings(entries) ==
    IF entries = << >> THEN 0
    ELSE (IF ReadsClock(Head(entries)) THEN 1 ELSE 0)
         + (IF EntryRaises(Head(entries)) THEN 0 ELSE ClockReadings(Tail(entries)))

\* the readings of the clock by the task of a source whose endpoint answered
\* outcome
Readings(outcome) ==
    IF outcome.kind = "ok" THEN ClockReadings(Prefix(outcome.entries, EntryLimit))
    ELSE 0

\* what the task of one source leaves in gather(), the clock having been read
\* at t for the last time when the task parses its feed: a list of articles,
\* or an exception that `except Exception` does not catch (the task is
\* cancelled)
fetch_single_feed(cfg, outcome, t) ==
    CASE outcome.kind = "ok" ->
            Returned(ParseEntries(cfg, Prefix(outcome.entries, EntryLimit), t))
      [] outcome.kind \in {"transport_error", "timeout", "bad_status"} ->
            Returned(<< >>)
      [] outcome.kind = "cancelled" -> Raised

-----------------------------------------------------------------------------
(* Aggregation: merge of the settled tasks *)

\* for result in results: if isinstance(result, list): all_articles.extend(result)
RECURSIVE Combine(_)
Combine(rs) ==
    IF rs = << >> THEN << >>
    ELSE (IF Head(rs).state = "returned" THEN Head(rs).value ELSE << >>)
         \o Combine(Tail(rs))

\* key=lambda x: x.get('published', '') or '': a missing published is the
\* empty string, which is also how the model writes it
SortKey(a) == a.published

\* the insertion of an ascending sort (reverse=True left out)
InsertAsc(sorted, a) ==
    LET larger == {i \in 1..Len(sorted) : StrLess(a.published, sorted[i].published)}
        at == IF larger = {} THEN Len(sorted) + 1
              ELSE CHOOSE i \in larger : \A k \in larger : i <= k
    IN SubSeq(sorted, 1, at - 1) \o <<a>> \o SubSeq(sorted, at, Len(sorted))

\* one insertion of a descending sort that is not stable: before the elements
\* of equal key
InsertDescUnstable(sorted, a) ==
    LET notLarger == {i \in 1..Len(sorted) : ~StrLess(a.published, sorted[i].published)}
        at == IF notLarger = {} THEN Len(sorted) + 1
              ELSE CHOOSE i \in notLarger : \A k \in notLarger : i <= k
    IN SubSeq(sorted, 1, at - 1) \o <<a>> \o SubSeq(sorted, at, Len(sorted))

\* one insertion of the stable descending sort: after every element whose
\* key is not smaller
InsertDesc(sorted, a) ==
    LET smaller == {i \in 1..Len(sorted) : StrLess(SortKey(sorted[i]), SortKey(a))}
        at == IF smaller = {} THEN Len(sorted) + 1
              ELSE CHOOSE i \in smaller : \A k \in smaller : i <= k
    IN SubSeq(sorted, 1, at - 1) \o <<a>> \o SubSeq(sorted, at, Len(sorted))

\* all_articles.sort(key=..., reverse=True)
RECURSIVE SortDesc(_)
SortDesc(as) ==
    IF as = << >> THEN << >>
    ELSE InsertDesc(SortDesc(SubSeq(as, 1, Len(as) - 1)), as[Len(as)])

\* a seen_titles loop keyed by the title itself, not by title.lower()[:50]
RECURSIVE DedupByTitle(_, _)
DedupByTitle(as, seen) ==
    IF as = << >> THEN << >>
    ELSE IF Head(as).title \in seen THEN DedupByTitle(Tail(as), seen)
    ELSE <<Head(as)>> \o DedupByTitle(Tail(as), seen \cup {Head(as).title})

\* a loop that keeps the last article of every title key, not the first
RECURSIVE DedupKeepLast(_, _)
DedupKeepLast(as, seen) ==
    IF as = << >> THEN << >>
    ELSE IF \E k \in 2..Len(as) : TitleKey(as[k]) = TitleKey(Head(as))
         THEN DedupKeepLast(Tail(as), seen)
    ELSE <<Head(as)>> \o DedupKeepLast(Tail(as), seen)

\* the seen_titles loop
RECURSIVE Dedup(_, _)
Dedup(as, seen) ==
    IF as = << >> THEN << >>
    ELSE IF TitleKey(Head(as)) \in seen THEN Dedup(Tail(as), seen)
    ELSE <<Head(as)>> \o Dedup(Tail(as), seen \cup {TitleKey(Head(as))})

\* a merge that removes duplicates before it sorts
MergeDedupFirst(rs) == SortDesc(Dedup(Combine(rs), {}))

\* what fetch_all_feeds returns once every task has settled
Merge(rs) == Dedup(SortDesc(Combine(rs)), {})

-----------------------------------------------------------------------------
(* What the feed endpoints can answer *)

NeuesModell == <<"N","e","u","e","s"," ","M","o","d","e","l","l">>
Wallbox == <<"W","a","l","l","b","o","x">>
X49 == [i \in 1..(TitleKeyLen - 1) |-> "x"]
TitleA == <<"<", "b", ">">> \o X49 \o <<"A", "1", "<", "/", "b", ">">>
TitleB == X49 \o <<"a", "2">>        \* same title key as TitleA
TitleC == X49 \o <<"b">>             \* differs from both in its 50th character

\* an entry with no summary, description, media or enclosure
Bare == [summary |-> << >>, has_summary |-> FALSE,
         description |-> << >>, has_description |-> FALSE,
         media_content |-> << >>, enclosures |-> << >>]

AudioMpeg == <<"a","u","d","i","o","/","m","p","e","g">>
ImageWebp == <<"i","m","a","g","e","/","w","e","b","p">>

AkkuMarkt == <<"<","p",">","A","k","k","u"," "," ","M","a","r","k","t","<","/","p",">">>
Strom == <<"S","t","r","o","m">>

EntryA == [title |-> TitleA, has_title |-> TRUE, link |-> "https://a.ch/1",
           published_parsed |-> 20, updated_parsed |-> 10] @@ Bare
EntryB == [title |-> TitleB, has_title |-> TRUE, link |-> "https://b.de/2",
           published_parsed |-> Absent, updated_parsed |-> 10,
           enclosures |-> <<[type |-> AudioMpeg, href |-> "https://b.de/2.mp3"],
                            [type |-> ImageWebp, href |-> "https://b.de/2.webp"]>>] @@ Bare
EntryC == [title |-> TitleC, has_title |-> TRUE, link |-> "https://c.us/3",
           published_parsed |-> Invalid, updated_parsed |-> 20,
           summary |-> AkkuMarkt, has_summary |-> TRUE,
           description |-> Strom, has_description |-> TRUE] @@ Bare
EntryX == [title |-> Wallbox, has_title |-> TRUE, link |-> SurrogateLink,
           published_parsed |-> 20, updated_parsed |-> Absent] @@ Bare

EntryN == [title |-> NeuesModell, has_title |-> TRUE, link |-> "https://a.ch/1",
           published_parsed |-> 20, updated_parsed |-> Absent] @@ Bare
EntryW == [title |-> Wallbox, has_title |-> TRUE, link |-> "https://b.de/2",
           published_parsed |-> Absent, updated_parsed |-> 20,
           media_content |-> <<[url |-> "https://b.de/w.png"]>>] @@ Bare

\* an entry without title, link and dates
EntryD == [title |-> << >>, has_title |-> FALSE, link |-> NoLink,
           published_parsed |-> Absent, updated_parsed |-> Absent,
           description |-> Strom, has_description |-> TRUE] @@ Bare

Failures == {[kind |-> k, entries |-> << >>] :
                k \in {"transport_error", "timeout", "bad_status", "cancelled"}}

Ok(entries) == [kind |-> "ok", entries |-> entries]

\* the entries the endpoints publish, in the order a feed lists them
Catalogue == <<EntryA, EntryX, EntryB, EntryC, EntryD>>

\* feeds of at most n entries of the catalogue
FeedsOver(catalogue, n) ==
    LET entries == {catalogue[i] : i \in 1..Len(catalogue)}
    IN {SelectSeq(catalogue, LAMBDA e : e \in chosen) :
           chosen \in {c \in SUBSET entries : Cardinality(c) <= n}}

\* the answers drawn for the tasks of an aggregation pass taken alone
AggOutcomes == Failures \cup {Ok(f) : f \in FeedsOver(Catalogue, MaxEntries)}

\* the answers drawn while requests overlap: the endpoint of source s fails,
\* or it answers with its feed
LiveFeeds == << <<EntryN>>, <<EntryW, EntryX>> >>
LiveOutcomes(s) ==
    {[kind |-> "transport_error", entries |-> << >>],
     Ok(LiveFeeds[((s - 1) % Len(LiveFeeds)) + 1])}

\* one answer per source
LiveAnswers ==
    {os \in [Sources -> UNION {LiveOutcomes(s) : s \in Sources}] :
        \A s \in Sources : os[s] \in LiveOutcomes(s)}

-----------------------------------------------------------------------------
(* Queries of GET /news and the responses of the handlers *)

DefaultLimit == 50           \* limit: int = Query(50)
NoFilter == ""               \* a filter that is None or empty: `if region:` is false

\* the query parameters of one GET /news; limit_is_int is false when the
\* limit sent does not parse as an int
Query(region, category, language, limit, refresh) ==
    [op |-> "get", region |-> region, category |-> category, language |-> language,
     limit |-> limit, limit_is_int |-> TRUE, refresh |-> refresh]
BadLimitQuery ==
    [op |-> "get", region |-> NoFilter, category |-> NoFilter, language |-> NoFilter,
     limit |-> 0, limit_is_int |-> FALSE, refresh |-> FALSE]

\* a lookup in which the international group also lists the Swiss code
region_codes_shared(region) ==
    CASE region = "swiss"         -> {"CH"}
      [] region = "german"        -> {"DE"}
      [] region = "international" -> {"US", "UK", "EU", "CH"}
      [] region = "balkan"        -> {"RS", "HR", "SI", "BA"}
      [] OTHER                    -> {}

\* a lookup whose default is every region code
region_codes_or_all(region) ==
    CASE region = "swiss"         -> {"CH"}
      [] region = "german"        -> {"DE"}
      [] region = "international" -> {"US", "UK", "EU"}
      [] region = "balkan"        -> {"RS", "HR", "SI", "BA"}
      [] OTHER                    -> {"CH", "DE", "US", "UK", "EU", "RS", "HR", "SI", "BA"}

\* region_codes.get(region, [])
region_codes(region) ==
    CASE region = "swiss"         -> {"CH"}
      [] region = "german"        -> {"DE"}
      [] region = "international" -> {"US", "UK", "EU"}
      [] region = "balkan"        -> {"RS", "HR", "SI", "BA"}
      [] OTHER                    -> {}

FilterRegion(list, region) ==
    IF region = NoFilter THEN list
    ELSE SelectSeq(list, LAMBDA a : a.region \in region_codes(region))

FilterLanguage(list, language) ==
    IF language = NoFilter THEN list
    ELSE SelectSeq(list, LAMBDA a : a.language = language)

FilterCategory(list, category) ==
    IF category = NoFilter THEN list
    ELSE SelectSeq(list, LAMBDA a : \E i \in 1..Len(a.categories) : a.categories[i] = category)

\* list[:limit]: a negative limit counts from the end of the list
Slice(list, limit) ==
    IF limit >= 0 THEN Prefix(list, limit)
    ELSE SubSeq(list, 1, IF Len(list) + limit > 0 THEN Len(list) + limit ELSE 0)

\* a handler that truncates before it filters
SelectArticlesLimitFirst(list, q) ==
    FilterCategory(FilterLanguage(FilterRegion(Slice(list, q.limit), q.region),
                                  q.language), q.category)

\* the filters of get_news, then articles[:limit]
SelectArticles(list, q) ==
    Slice(FilterCategory(FilterLanguage(FilterRegion(list, q.region), q.language),
                         q.category), q.limit)

NoResponse == [to |-> 0, status |-> 0]

\* the request validation of the framework: limit is declared int
ValidationError(r) == [to |-> r, status |-> 422]

\* round(seconds / 60, 1) of a time difference: whole minutes, its
\* microseconds being too few to change the tenths of a minute
AgeMinutes(d) == (d + Micro \div 2) \div Micro

\* the dict get_news returns, from the cache as it is when the handler returns
GetNewsResponse(r, q, cache, updated, t) ==
    LET selected == SelectArticles(cache, q)
    IN [to |-> r, status |-> 200,
        articles |-> selected,
        total |-> Len(selected),
        cache_age_minutes |-> IF updated # None THEN AgeMinutes(t - updated) ELSE 0,
        sources_count |-> Len(all_feeds),
        filters |-> [region |-> q.region, category |-> q.category,
                     language |-> q.language]]

\* a refresh_news that builds its response before it awaits the pass
RefreshNewsResponseBefore(r, cache, updated, t) ==
    [to |-> r, status |-> 200, state |-> "refreshed",
     articles_count |-> Len(articles),
     timestamp |-> IsoFormat(IF last_updated = None THEN 0 ELSE last_updated)]

\* the dict refresh_news returns
RefreshNewsResponse(r, cache, updated, t) ==
    [to |-> r, status |-> 200, state |-> "refreshed",
     articles_count |-> Len(cache), timestamp |-> IsoFormat(updated)]

-----------------------------------------------------------------------------
(* The cache and the request handlers *)

\* a task: the answer of its endpoint, what the task has built from it
\* inside `async with`, and what it has left in gather() once it has returned
NoAnswer == [kind |-> "none", entries |-> << >>]
PendingTask == [answer |-> NoAnswer, built |-> Pending, result |-> Pending]
AllPending == [s \in Sources |-> PendingTask]
NoRequest == [op |-> "none", refresh |-> FALSE]
NoOrder == [r \in Requests |-> << >>]

\* a join that ends when the first task has settled
SettledFirst(r) == \E s \in Sources : results[r][s].result # Pending

Settled(r) == \A s \in Sources : results[r][s].result # Pending

\* the task fetch_single_feed(feed) of source s up to the exit of its
\* `async with`, which it awaits: its endpoint answers o when the clock has
\* been read at t for the last time, and the task has built what it will
\* return
ParseTask(s, o, t) ==
    [answer |-> o, built |-> fetch_single_feed(all_feeds[s], o, t), result |-> Pending]

\* the task fetch_single_feed(feed) of source s, once it has returned
RunTask(s, o, t) ==
    LET returned(task) == [task EXCEPT !.result = task.built]
    IN returned(ParseTask(s, o, t))

\* the orders in which the endpoints of a pass can answer, and those in
\* which its tasks can settle
Orders ==
    {seq \in [1..NumSources -> Sources] :
        \A i, j \in 1..NumSources : i # j => seq[i] # seq[j]}

\* the endpoints answer in the order of the registry: the order taken where
\* at most one task of the pass reads the clock, so that the order changes
\* nothing
RegistryOrder == [i \in 1..NumSources |-> i]

\* the readings of the clock by the tasks whose endpoints answer before the
\* one of source s, the endpoints answering os in the order seq
RECURSIVE ReadingsBefore(_, _, _)
ReadingsBefore(os, seq, s) ==
    IF Head(seq) = s THEN 0
    ELSE Readings(os[Head(seq)]) + ReadingsBefore(os, Tail(seq), s)

\* the readings of the clock by all the tasks of a pass
PassReadings(os) ==
    LET readings[n \in 0..NumSources] ==
            IF n = 0 THEN 0 ELSE Readings(os[n]) + readings[n - 1]
    IN readings[NumSources]

\* tasks = [fetch_single_feed(feed) for feed in all_feeds], once they have
\* returned, the endpoints having answered os in the order seq after the
\* clock was read at t: every task parses its feed when its endpoint answers
RunTasks(os, seq, t) ==
    [s \in Sources |-> RunTask(s, os[s], t + ReadingsBefore(os, seq, s))]

\* results collected in the order in which the tasks settled
GatherResultsAsCompleted(tasks) ==
    LET r == CHOOSE r \in Requests : results[r] = tasks /\ Len(order[r]) = Len(all_feeds)
    IN [k \in 1..Len(order[r]) |-> tasks[order[r][k]].result]

\* results = await asyncio.gather(*tasks, return_exceptions=True), in task order
GatherResults(tasks) == [s \in Sources |-> tasks[s].result]

Init ==
    /\ articles = << >>
    /\ last_updated = None
    /\ now = 0
    /\ pc = [r \in Requests |-> "idle"]
    /\ req = [r \in Requests |-> NoRequest]
    /\ results = [r \in Requests |-> AllPending]
    /\ gathered = AllPending
    /\ response = NoResponse
    /\ order = NoOrder

TickSteps == {30, 61}

Tick ==
    /\ \E d \in TickSteps :
          now + Minutes(d) <= Minutes(MaxTime) /\ now' = now + Minutes(d)
    /\ response' = NoResponse
    /\ UNCHANGED <<articles, last_updated, pc, req, results, gathered, order>>

\* cache_valid with the age comparison turned around
CacheValidInverted(refresh) ==
    /\ last_updated # None
    /\ now - last_updated > CacheDuration
    /\ Len(articles) > 0
    /\ ~refresh

\* cache_valid that forgets the refresh parameter
CacheValidIgnoresRefresh(refresh) ==
    /\ last_updated # None
    /\ now - last_updated < CacheDuration
    /\ Len(articles) > 0

\* cache_valid with <= in place of <
CacheValidInclusive(refresh) ==
    /\ last_updated # None
    /\ now - last_updated <= CacheDuration
    /\ Len(articles) > 0
    /\ ~refresh

\* cache_valid of get_news
CacheValid(refresh) ==
    /\ last_updated # None
    /\ now - last_updated < CacheDuration
    /\ Len(articles) > 0
    /\ ~refresh

\* the pass of request r starts: none of its tasks has settled, and the
\* order kept of the passes that have ended is forgotten
StartOrder(r) ==
    [q \in Requests |-> IF q # r /\ pc[q] = "fetching" THEN order[q] ELSE << >>]

\* a GET /news whose filters and limit act on the cached list itself
GetNewsFilterInPlace(r, q) ==
    /\ pc[r] # "fetching"
    /\ IF ~q.limit_is_int
       THEN /\ pc' = [pc EXCEPT ![r] = "rejected"]
            /\ req' = [req EXCEPT ![r] = q]
            /\ response' = ValidationError(r)
            /\ UNCHANGED <<articles, order>>
       ELSE IF CacheValid(q.refresh)
       THEN /\ pc' = [pc EXCEPT ![r] = "hit"]
            /\ req' = [req EXCEPT ![r] = q]
            /\ response' = GetNewsResponse(r, q, articles, last_updated, now)
            /\ articles' = SelectArticles(articles, q)
            /\ UNCHANGED order
       ELSE /\ pc' = [pc EXCEPT ![r] = "fetching"]
            /\ req' = [req EXCEPT ![r] = q]
            /\ response' = NoResponse
            /\ order' = StartOrder(r)
            /\ UNCHANGED articles
    /\ UNCHANGED <<last_updated, now, results, gathered>>

\* GET /news up to its await (cache miss) or to its response (cache hit, or
\* a limit the framework rejects before the handler runs)
GetNews(r, q) ==
    /\ pc[r] # "fetching"
    /\ IF ~q.limit_is_int
       THEN /\ pc' = [pc EXCEPT ![r] = "rejected"]
            /\ req' = [req EXCEPT ![r] = q]
            /\ response' = ValidationError(r)
            /\ UNCHANGED order
       ELSE IF CacheValid(q.refresh)
       THEN /\ pc' = [pc EXCEPT ![r] = "hit"]
            /\ req' = [req EXCEPT ![r] = q]
            /\ response' = GetNewsResponse(r, q, articles, last_updated, now)
            /\ UNCHANGED order
       ELSE /\ pc' = [pc EXCEPT ![r] = "fetching"]
            /\ req' = [req EXCEPT ![r] = q]
            /\ response' = NoResponse
            /\ order' = StartOrder(r)
    /\ UNCHANGED <<articles, last_updated, now, results, gathered>>

\* POST /news/refresh up to its await
RefreshNews(r) ==
    /\ pc[r] # "fetching"
    /\ req' = [req EXCEPT ![r] = [op |-> "post", refresh |-> TRUE]]
    /\ pc' = [pc EXCEPT ![r] = "fetching"]
    /\ response' = NoResponse
    /\ order' = StartOrder(r)
    /\ UNCHANGED <<articles, last_updated, now, results, gathered>>

\* the task of source s in the pass of request r resumes from `await
\* client.get(...)`: its endpoint has answered, and the task builds its
\* articles, reading the clock for the entries it dates itself, up to the
\* exit of `async with`, which it awaits
FetchResponse(r, s) ==
    /\ pc[r] = "fetching"
    /\ results[r][s].answer = NoAnswer
    /\ \E o \in LiveOutcomes(s) :
          /\ results' = [results EXCEPT ![r][s] = ParseTask(s, o, now)]
          /\ now' = now + Readings(o)
    /\ response' = NoResponse
    /\ UNCHANGED <<articles, last_updated, pc, req, gathered, order>>

\* the task of source s in the pass of request r settles: it resumes from
\* the exit of `async with` and returns what it has built
FetchSettle(r, s) ==
    /\ pc[r] = "fetching"
    /\ results[r][s].answer # NoAnswer
    /\ results[r][s].result = Pending
    /\ results' = [results EXCEPT ![r][s].result = results[r][s].built]
    /\ response' = NoResponse
    /\ order' = [order EXCEPT ![r] = Append(@, s)]
    /\ UNCHANGED <<articles, last_updated, now, pc, req, gathered>>

\* a store that leaves alone a cache another pass has just filled
StoreUnlessFresh(rs) ==
    IF last_updated # None /\ now - last_updated < CacheDuration /\ articles # << >>
    THEN UNCHANGED <<articles, last_updated>>
    ELSE /\ articles' = Merge(rs)
         /\ last_updated' = now

\* the first of the two writes alone
StoreArticlesOnly(rs) ==
    /\ articles' = Merge(rs)
    /\ UNCHANGED last_updated

\* a store that invalidates the cache when the pass returned nothing
StoreOrInvalidate(rs) ==
    /\ articles' = Merge(rs)
    /\ last_updated' = IF Merge(rs) = << >> THEN None ELSE now

\* news_cache["articles"] = <what fetch_all_feeds() returned>
\* news_cache["last_updated"] = datetime.now(timezone.utc)
StoreResult(rs) ==
    /\ articles' = Merge(rs)
    /\ last_updated' = now

\* a handler from the end of its await on fetch_all_feeds(), whose tasks
\* have settled, to its response
Resume(r, tasks) ==
    /\ StoreResult(GatherResults(tasks))
    /\ gathered' = tasks
    /\ pc' = [pc EXCEPT ![r] = "refreshed"]
    /\ results' = [results EXCEPT ![r] = AllPending]
    /\ response' = IF req[r].op = "get"
                   THEN GetNewsResponse(r, req[r], articles', last_updated', now)
                   ELSE RefreshNewsResponse(r, articles', last_updated', now)
    /\ UNCHANGED <<now, req, order>>

\* GET /news after its tasks have settled one by one
GetNewsResume(r) ==
    /\ pc[r] = "fetching"
    /\ req[r].op = "get"
    /\ Settled(r)
    /\ Resume(r, results[r])

\* POST /news/refresh after its tasks have settled one by one
RefreshNewsResume(r) ==
    /\ pc[r] = "fetching"
    /\ req[r].op = "post"
    /\ Settled(r)
    /\ Resume(r, results[r])

\* the queries sent while requests overlap
LiveQueries == {Query(NoFilter, NoFilter, NoFilter, DefaultLimit, refresh) :
                   refresh \in BOOLEAN}

(* Overlapping requests against the cache, their tasks settling one by one  *)
(* in any order, with the clock running                                    *)
Next ==
    \/ Tick
    \/ \E r \in Requests, q \in LiveQueries : GetNews(r, q)
    \/ \E r \in Requests : RefreshNews(r)
    \/ \E r \in Requests, s \in Sources : FetchResponse(r, s)
    \/ \E r \in Requests, s \in Sources : FetchSettle(r, s)
    \/ \E r \in Requests : GetNewsResume(r)
    \/ \E r \in Requests : RefreshNewsResume(r)

Spec == Init /\ [][Next]_vars

-----------------------------------------------------------------------------
(* One aggregation pass taken alone: every task has settled, with answers    *)
(* drawn from AggOutcomes in any order, and the handler resumes              *)

AggTime == 15        \* the minute at which the pass starts

\* the task of every source for every answer, when the pass starts at AggTime
\* and the tasks that settled before it have read the clock k times
AggTasks ==
    [s \in Sources |-> [o \in AggOutcomes |->
        [k \in 0..((NumSources - 1) * MaxEntries) |->
            RunTask(s, o, Minutes(AggTime) + k)]]]

\* a pass that started at AggTime: the endpoints have answered os, in the
\* order seq, the tasks have returned in the order settle, and the clock is
\* where the last task left it
InitAgg ==
    /\ articles = << >>
    /\ last_updated = None
    /\ pc = [r \in Requests |-> IF r = 1 THEN "fetching" ELSE "idle"]
    /\ req = [r \in Requests |->
                 IF r = 1 THEN [op |-> "post", refresh |-> TRUE] ELSE NoRequest]
    /\ \E os \in [Sources -> AggOutcomes], seq \in Orders, settle \in Orders :
          /\ results = [r \in Requests |->
                           IF r = 1
                           THEN [s \in Sources |->
                                    AggTasks[s][os[s]][ReadingsBefore(os, seq, s)]]
                           ELSE AllPending]
          /\ now = Minutes(AggTime) + PassReadings(os)
          /\ order = [r \in Requests |-> IF r = 1 THEN settle ELSE << >>]
    /\ gathered = AllPending
    /\ response = NoResponse

NextAgg == RefreshNewsResume(1)

SpecAgg == InitAgg /\ [][NextAgg]_vars

-----------------------------------------------------------------------------
(* One GET /news, with any query, on a cache that a POST /news/refresh has   *)
(* filled, or on the cache of a process that has served nothing yet          *)

\* a non-200 answer whose body is a feed
ErrorPage == [kind |-> "bad_status", entries |-> <<EntryN>>]

\* the answers of a pass: every source fails or answers with its feed, or
\* all fail in the same way
QueryAnswers ==
    LiveAnswers \cup {[s \in Sources |-> f] : f \in Failures \cup {ErrorPage}}

Regions == {NoFilter, "swiss", "international", "mars"}
Categories == {NoFilter, "vehicles", "policy"}
Languages == {NoFilter, "en", "xx"}
Limits == (-1..MaxLimit) \cup {DefaultLimit}

Queries ==
    {Query(region, category, language, limit, refresh) :
        region \in Regions, category \in Categories, language \in Languages,
        limit \in Limits, refresh \in BOOLEAN}
    \cup {BadLimitQuery}

\* request 2 was a POST /news/refresh served at time 0, or nothing was served
InitQuery ==
    /\ now = Minutes(AggTime)
    /\ order = NoOrder
    /\ results = [r \in Requests |-> AllPending]
    /\ \/ /\ articles = << >>
          /\ last_updated = None
          /\ pc = [r \in Requests |-> "idle"]
          /\ req = [r \in Requests |-> NoRequest]
          /\ gathered = AllPending
          /\ response = NoResponse
       \/ \E os \in QueryAnswers :
             /\ articles = Merge(GatherResults(RunTasks(os, RegistryOrder, 0)))
             /\ last_updated = PassReadings(os)
             /\ pc = [r \in Requests |-> IF r = 2 THEN "refreshed" ELSE "idle"]
             /\ req = [r \in Requests |->
                          IF r = 2 THEN [op |-> "post", refresh |-> TRUE] ELSE NoRequest]
             /\ gathered = RunTasks(os, RegistryOrder, 0)
             /\ response = RefreshNewsResponse(2, articles, last_updated, last_updated)

QueryGet == pc[1] = "idle" /\ \E q \in Queries : GetNews(1, q)

NextQuery ==
    \/ QueryGet
    \/ \E s \in Sources : FetchResponse(1, s)
    \/ \E s \in Sources : FetchSettle(1, s)
    \/ GetNewsResume(1)

SpecQuery == InitQuery /\ [][NextQuery]_vars

-----------------------------------------------------------------------------
(* One aggregation pass over texts: source 1 answers with a feed of one      *)
(* entry whose title and summary are drawn from texts around the limit of    *)
(* clean_html and around the keywords of the categorizer; the other sources  *)
(* fail                                                                      *)

Pad(n) == [i \in 1..n |-> "x"]
Mark == <<"m","a","r","k">>
OscarEv == <<"O","s","c","a","r"," ","E","V">>

\* a title with letters outside ASCII, line ends and character references
OelEv == <<"U+00D6","L","\r","\n","&","n","b","s","p",";","&","q","u","o","t",";","E","V">>
\* a title whose lowercase is longer than the title, with a final sigma
SigmaDc == <<"U+0130","U+03A3"," ","D","C","&","#","3","8",";">>

TextTitles ==
    {<< >>, Mark, OscarEv, Wallbox, NeuesModell, OelEv, SigmaDc,
     <<"<","b",">">> \o Pad(CleanLimit - 1) \o <<"<","/","b",">">>,
     Pad(CleanLimit),
     <<" ">> \o Pad(CleanLimit + 1) \o <<"\n">>,
     Pad(CleanLimit - 1) \o <<"&","a","m","p",";","&","l","t",";","e","v">>}

TextSummaries ==
    {<< >>, <<"t">>, <<"D","C">>, AkkuMarkt, Strom, <<" ","\n">>,
     Pad(CleanLimit),
     Pad(CleanLimit - 2) \o <<"\t"," ">> \o Pad(2) \o <<"<","i",">">>,
     Pad(CleanLimit) \o <<" ","a","k","k","u">>}

TextEntry(title, summary) ==
    [title |-> title, has_title |-> TRUE, link |-> "https://a.ch/1",
     published_parsed |-> 20, updated_parsed |-> Absent,
     summary |-> summary, has_summary |-> TRUE] @@ Bare

TextEntries ==
    {TextEntry(title, summary) : title \in TextTitles, summary \in TextSummaries}
        \cup {EntryD, EntryN}

\* an entry of another source with the link of EntryN, another title and a
\* summary, whose time tuples are present, absent or rejected by datetime(...)
DateCases == {Absent, Invalid}
TwinEntry(published, updated) ==
    [title |-> Wallbox, has_title |-> TRUE, link |-> "https://a.ch/1",
     published_parsed |-> published, updated_parsed |-> updated,
     description |-> Strom, has_description |-> TRUE] @@ Bare

TwinEntries ==
    {TwinEntry(published, updated) :
        published \in DateCases \cup {20}, updated \in DateCases \cup {10}}

Down == [kind |-> "transport_error", entries |-> << >>]

\* source 1 answers with one entry of the texts and the others fail, or
\* source 1 answers with EntryN and source 2 with an entry of the same link
TextAnswers ==
    {[s \in Sources |-> IF s = 1 THEN Ok(<<entry>>) ELSE Down] :
        entry \in TextEntries}
    \cup
    {[s \in Sources |-> IF s = 1 THEN Ok(<<EntryN>>)
                        ELSE IF s = 2 THEN Ok(<<twin>>) ELSE Down] :
        twin \in TwinEntries}

InitText ==
    /\ articles = << >>
    /\ last_updated = None
    /\ pc = [r \in Requests |-> IF r = 1 THEN "fetching" ELSE "idle"]
    /\ req = [r \in Requests |->
                 IF r = 1 THEN [op |-> "post", refresh |-> TRUE] ELSE NoRequest]
    /\ \E os \in TextAnswers :
          /\ results = [r \in Requests |->
                           IF r = 1 THEN RunTasks(os, RegistryOrder, Minutes(AggTime))
                           ELSE AllPending]
          /\ now = Minutes(AggTime) + PassReadings(os)
    /\ gathered = AllPending
    /\ response = NoResponse
    /\ order = NoOrder

NextText == RefreshNewsResume(1)

SpecText == InitText /\ [][NextText]_vars

-----------------------------------------------------------------------------
(* One aggregation pass over long feeds: source 1 answers with a feed of up  *)
(* to MaxFeed dated entries, listed newest first or oldest first, and the    *)
(* other sources fail or answer with one entry                               *)

MaxFeed == 12

\* the entry published at minute i
FeedEntry(i) ==
    [title |-> Pad(i), has_title |-> TRUE, link |-> "https://a.ch/1",
     published_parsed |-> i, updated_parsed |-> Absent] @@ Bare

NewestFirst(n) == [k \in 1..n |-> FeedEntry(n - k + 1)]
OldestFirst(n) == [k \in 1..n |-> FeedEntry(k)]

LongFeeds == {NewestFirst(n) : n \in 0..MaxFeed} \cup {OldestFirst(n) : n \in 0..MaxFeed}

FeedAnswers ==
    {[s \in Sources |-> IF s = 1 THEN Ok(feed) ELSE other] :
        feed \in LongFeeds, other \in Failures \cup {Ok(<<EntryW>>)}}

InitFeed ==
    /\ articles = << >>
    /\ last_updated = None
    /\ pc = [r \in Requests |-> IF r = 1 THEN "fetching" ELSE "idle"]
    /\ req = [r \in Requests |->
                 IF r = 1 THEN [op |-> "post", refresh |-> TRUE] ELSE NoRequest]
    /\ \E os \in FeedAnswers :
          /\ results = [r \in Requests |->
                           IF r = 1 THEN RunTasks(os, RegistryOrder, Minutes(AggTime))
                           ELSE AllPending]
          /\ now = Minutes(AggTime) + PassReadings(os)
    /\ gathered = AllPending
    /\ response = NoResponse
    /\ order = NoOrder

NextFeed == RefreshNewsResume(1)

SpecFeed == InitFeed /\ [][NextFeed]_vars

-----------------------------------------------------------------------------
(* Properties *)

\* a pass has stored its result
PassStored == last_updated # None

\* the articles the tasks of the last stored pass returned, in task order
Fetched == Combine(GatherResults(gathered))

\* the task fetched its feed and built an article for every entry it read
Succeeded(task) ==
    /\ task.answer.kind = "ok"
    /\ \A i \in 1..Min(EntryLimit, Len(task.answer.entries)) :
          ~EntryRaises(task.answer.entries[i])

SameKey(a, b) == TitleKey(a) = TitleKey(b)

\* C1: no two articles of the stored aggregation result have the same title
\* key (lowercased title, first 50 characters).
DedupInvariant ==
    LET key == [i \in 1..Len(articles) |-> TitleKey(articles[i])]
    IN \A i, j \in 1..Len(articles) : i # j => key[i] # key[j]

\* C1 witness: a pass has stored two articles, and it had fetched two articles
\* whose titles differ but whose keys are the same.
DedupWitness ==
    /\ PassStored
    /\ Len(articles) >= 2
    /\ \E i, j \in 1..Len(Fetched) :
          Fetched[i].title # Fetched[j].title /\ SameKey(Fetched[i], Fetched[j])

\* C2: the stored aggregation result is in descending order of published,
\* also after duplicates have been removed.
OrderInvariant ==
    \A i \in 1..(Len(articles) - 1) :
        ~StrLess(articles[i].published, articles[i + 1].published)

\* C2 witness: the fetched articles came in ascending order somewhere, a
\* duplicate was removed, and at least two articles with different
\* timestamps are stored.
OrderWitness ==
    /\ PassStored
    /\ Len(articles) < Len(Fetched)
    /\ \E i \in 1..(Len(Fetched) - 1) :
          StrLess(Fetched[i].published, Fetched[i + 1].published)
    /\ \E i \in 1..(Len(articles) - 1) :
          StrLess(articles[i + 1].published, articles[i].published)

\* C3: of every group of fetched articles with the same title key, exactly one
\* is stored, and none of the group is newer than it.
NewestDuplicateWins ==
    PassStored =>
        LET fetched == Fetched
            fkey == [i \in 1..Len(fetched) |-> TitleKey(fetched[i])]
            akey == [k \in 1..Len(articles) |-> TitleKey(articles[k])]
        IN \A i \in 1..Len(fetched) :
               LET group == {j \in 1..Len(fetched) : fkey[j] = fkey[i]}
                   kept == {k \in 1..Len(articles) : akey[k] = fkey[i]}
               IN /\ Cardinality(kept) = 1
                  /\ \A k \in kept :
                        /\ \E j \in group : articles[k] = fetched[j]
                        /\ \A j \in group :
                              ~StrLess(articles[k].published, fetched[j].published)

\* C3 witness: two sources returned articles with the same title key and
\* different links, and the later one in task order is the newer one.
NewestDuplicateWitness ==
    /\ PassStored
    /\ \E i, j \in 1..Len(Fetched) :
          /\ i < j
          /\ SameKey(Fetched[i], Fetched[j])
          /\ Fetched[i].source # Fetched[j].source
          /\ Fetched[i].url # Fetched[j].url
          /\ StrLess(Fetched[i].published, Fetched[j].published)

\* what gather() would hold had every failing source contributed nothing
SucceededOnly ==
    [s \in Sources |-> IF Succeeded(gathered[s]) THEN gathered[s].result ELSE Returned(<< >>)]

\* C4: whatever sources fail, the aggregation result is the merge of the
\* articles of the sources that succeeded.
FaultIsolation == PassStored => articles = Merge(SucceededOnly)

\* no endpoint of the pass answered with a feed
NoSourceAnswered(tasks) == \A s \in Sources : tasks[s].answer.kind # "ok"

\* request r resumes from its await and stores the result of its pass
Completes(r) == pc[r] = "fetching" /\ pc'[r] = "refreshed"

\* C5: a refresh pass in which no source succeeds leaves the stored, non-empty
\* articles in place.
StaleWhileError ==
    [][\A r \in Requests :
          (Completes(r) /\ articles # << >> /\ NoSourceAnswered(gathered'))
              => articles' = articles]_vars

\* request r, a GET /news without refresh, starts an aggregation pass
StartsUnforcedPass(r) ==
    /\ pc[r] # "fetching"
    /\ pc'[r] = "fetching"
    /\ req'[r].op = "get"
    /\ ~req'[r].refresh

\* request r, a GET /news, is answered from the cache in this step
ServedFromCache(r) ==
    /\ pc[r] # "fetching"
    /\ pc'[r] = "hit"
    /\ response'.to = r

\* C6 as claimed: once a pass has stored its result, whatever it was, no GET
\* /news without refresh starts a pass less than one hour later.
CacheHitWhateverStored ==
    [][\A r \in Requests :
          StartsUnforcedPass(r)
              => ~(PassStored /\ now - last_updated < CacheDuration)]_vars

\* C6 amended: when the stored list is not empty and was stored less than one
\* hour ago, no GET /news without refresh starts a pass, and the cache is as
\* it was after the request.
CacheHitNonEmpty ==
    [][\A r \in Requests :
          /\ StartsUnforcedPass(r)
                => ~(/\ PassStored
                     /\ now - last_updated < CacheDuration
                     /\ Len(articles) > 0)
          /\ ServedFromCache(r)
                => (articles' = articles /\ last_updated' = last_updated)]_vars

\* C6 witness: a GET /news was answered from a result stored earlier.
CacheHitWitness ==
    \E r \in Requests :
        /\ pc[r] = "hit"
        /\ PassStored
        /\ last_updated < now
        /\ now - last_updated < CacheDuration

\* C7: at most one aggregation pass is in flight.
SingleFlight == Cardinality({r \in Requests : pc[r] = "fetching"}) <= 1

\* C8: the cache changes only in the step in which a handler resumes from its
\* await with every task settled, and that step writes the merge of the
\* gathered results and the current time together; no step of a task writes it.
AtomicReplacement ==
    [][(articles' # articles \/ last_updated' # last_updated)
          => \E r \in Requests :
                /\ Completes(r)
                /\ Settled(r)
                /\ articles' = Merge(GatherResults(results[r]))
                /\ last_updated' = now]_vars

\* C8 witness: a pass is in flight with a task settled and a task pending,
\* the cache holds the result of an earlier pass, and a request was answered
\* from it.
AtomicReplacementWitness ==
    /\ PassStored
    /\ articles # << >>
    /\ \E r, q \in Requests :
          /\ pc[r] = "fetching"
          /\ \E s, u \in Sources :
                results[r][s].result # Pending /\ results[r][u].result = Pending
          /\ pc[q] = "hit"

\* C9: a GET /news is answered from the cache only if a pass has stored a
\* result at most one hour ago and refresh is not set; otherwise it runs a
\* pass with one task per source, and it answers when the cache holds the
\* merge of that pass and the time of its completion.
RefreshTrigger ==
    [][\A r \in Requests :
          /\ ServedFromCache(r)
                => /\ PassStored
                   /\ now - last_updated <= CacheDuration
                   /\ ~req'[r].refresh
          /\ (Completes(r) /\ req[r].op = "get")
                => /\ \A s \in Sources : gathered'[s].result # Pending
                   /\ articles' = Merge(GatherResults(gathered'))
                   /\ last_updated' = now
          /\ (pc[r] = "fetching" /\ pc'[r] # "fetching") => Completes(r)]_vars

\* C9 witness: a GET /news without refresh has run a pass on a cache stored
\* more than one hour before, and has stored what the pass returned.
RefreshTriggerWitness ==
    \E r \in Requests :
        /\ pc[r] = "refreshed"
        /\ req[r].op = "get"
        /\ ~req[r].refresh
        /\ last_updated = now
        /\ now > CacheDuration
        /\ articles # << >>

\* C10 as claimed: age triggers a pass only when more than one hour has
\* elapsed since a non-empty result was stored.
StaleOnlyBeyondWindow ==
    [][\A r \in Requests :
          (StartsUnforcedPass(r) /\ PassStored /\ Len(articles) > 0)
              => now - last_updated > CacheDuration]_vars

\* C10 amended: age triggers a pass when at least one hour has elapsed: a GET
\* /news is answered from the cache only when less than one hour has elapsed,
\* and a pass started by age starts at one hour or later.
FreshnessBoundary ==
    [][\A r \in Requests :
          /\ ServedFromCache(r)
                => now - last_updated < CacheDuration
          /\ (StartsUnforcedPass(r) /\ PassStored /\ Len(articles) > 0)
                => now - last_updated >= CacheDuration]_vars

\* C10 witness: a GET /news without refresh is running a pass that it started
\* exactly one hour after a non-empty result was stored.
FreshnessBoundaryWitness ==
    \E r \in Requests :
        /\ pc[r] = "fetching"
        /\ req[r].op = "get"
        /\ ~req[r].refresh
        /\ PassStored
        /\ Len(articles) > 0
        /\ now - last_updated = CacheDuration

\* the task of a source failed in one of the ways the fetcher handles: the
\* transport, the status, or an exception while an entry was processed
FetchFailed(task) ==
    \/ task.answer.kind \in {"transport_error", "timeout", "bad_status"}
    \/ task.answer.kind = "ok" /\ ~Succeeded(task)

\* C11: the task of a source that failed returns, without raising, a list
\* with no article.
FetcherAbsorbsFailures ==
    PassStored =>
        \A s \in Sources :
            FetchFailed(gathered[s]) => gathered[s].result = Returned(<< >>)

\* the articles of the entries of a feed that can be processed, among its
\* first EntryLimit entries, when the clock was read at t for the last time
ProcessableArticles(cfg, entries, t) ==
    ParseEntries(cfg, SelectSeq(Prefix(entries, EntryLimit), LAMBDA e : ~EntryRaises(e)), t)

\* the entries the tasks of the last stored pass were given to process: no
\* task reads the clock more often than once for each
EntriesRead ==
    LET read[n \in 0..Len(all_feeds)] ==
            IF n = 0 THEN 0
            ELSE Min(Len(gathered[n].answer.entries), EntryLimit) + read[n - 1]
    IN read[Len(all_feeds)]

\* C12: the task of a source that answered with a feed returns the article
\* of every entry that can be processed, whether an entry before or after it
\* fails, dated at the time of the pass at which the task parsed its feed.
PerEntryIsolation ==
    PassStored =>
        \A s \in Sources :
            gathered[s].answer.kind = "ok"
                => \E k \in 0..EntriesRead :
                      gathered[s].result =
                          Returned(ProcessableArticles(all_feeds[s],
                                                       gathered[s].answer.entries,
                                                       last_updated - k))

\* C13: the cache starts with no articles and last_updated unset; a step
\* that sets last_updated is the completion of a pass, no step unsets it,
\* and while it is unset the cache has no articles.
CacheStateMachine ==
    [][/\ last_updated # None => last_updated' # None
       /\ last_updated = None => articles = << >>
       /\ (last_updated = None /\ last_updated' # None)
             => \E r \in Requests : Completes(r)]_vars

\* C13 witness: two passes have completed and the last one stored an empty
\* list: the cache is populated, with last_updated set, and has no articles.
CacheStateMachineWitness ==
    /\ PassStored
    /\ articles = << >>
    /\ \E r, q \in Requests :
          r # q /\ pc[r] = "refreshed" /\ pc[q] = "refreshed"

\* C14: a POST /news/refresh answers only when its pass has completed; it
\* then has stored the merge of that pass with the completion time, and its
\* response reports the length of the stored list and the stored last_updated.
ForcedRefresh ==
    [][\A r \in Requests :
          /\ (req'[r].op = "post" /\ pc'[r] # pc[r])
                => (pc'[r] = "fetching" \/ Completes(r))
          /\ (Completes(r) /\ req[r].op = "post")
                => /\ \A s \in Sources : gathered'[s].result # Pending
                   /\ articles' = Merge(GatherResults(gathered'))
                   /\ last_updated' = now
                   /\ response'.to = r
                   /\ response'.status = 200
                   /\ response'.articles_count = Len(articles')
                   /\ response'.timestamp = IsoFormat(last_updated')]_vars

\* C14 witness: a POST /news/refresh that arrived on a populated cache has
\* been answered with the count of a non-empty list.
ForcedRefreshWitness ==
    \E r \in Requests :
        /\ pc[r] = "refreshed"
        /\ req[r].op = "post"
        /\ response.to = r
        /\ response.articles_count = Len(articles)
        /\ response.articles_count > 0
        /\ response.timestamp = IsoFormat(now)
        /\ now > 0

\* request r, a GET /news, is answered in this step with the dict of get_news
Answered(r) ==
    /\ ServedFromCache(r) \/ (Completes(r) /\ req[r].op = "get")
    /\ response'.to = r

\* C15: when the task of every source has failed, the pass stores an empty
\* list and the GET /news that ran it answers 200 with no article and total 0.
NoFatalAggregation ==
    [][\A r \in Requests :
          (/\ Completes(r)
           /\ req[r].op = "get"
           /\ \A s \in Sources : ~Succeeded(gathered'[s]))
              => /\ articles' = << >>
                 /\ response'.to = r
                 /\ response'.status = 200
                 /\ response'.articles = << >>
                 /\ response'.total = 0]_vars

\* article a passes every filter that query q gives
Matches(a, q) ==
    /\ q.region # NoFilter => a.region \in region_codes(q.region)
    /\ q.language # NoFilter => a.language = q.language
    /\ q.category # NoFilter => \E i \in 1..Len(a.categories) : a.categories[i] = q.category

\* the positions in list of the articles that pass the filters of q
Matching(list, q) == {i \in 1..Len(list) : Matches(list[i], q)}

\* the j-th smallest element of a set of positions
Nth(positions, j) ==
    CHOOSE i \in positions : Cardinality({m \in positions : m <= i}) = j

\* C16: for a limit >= 0, the response of GET /news holds the first
\* min(limit, n) of the n cached articles that pass all the filters given, in
\* cache order, and total is the number of articles returned.
LimitAndFilters ==
    [][\A r \in Requests :
          (Answered(r) /\ req'[r].limit >= 0)
              => LET q == req'[r]
                     matching == Matching(articles', q)
                     k == Min(q.limit, Cardinality(matching))
                 IN /\ response'.status = 200
                    /\ Len(response'.articles) = k
                    /\ response'.total = k
                    /\ \A j \in 1..k :
                          response'.articles[j] = articles'[Nth(matching, j)]]_vars

\* C16 witness: a GET /news with limit 1 and a language filter was answered
\* with the second of two cached articles, the only one in that language.
LimitAndFiltersWitness ==
    \E r \in Requests :
        /\ pc[r] = "hit"
        /\ response.to = r
        /\ req[r].limit = 1
        /\ req[r].language # NoFilter
        /\ Len(articles) = 2
        /\ response.total = 1
        /\ response.articles = <<articles[2]>>

\* the limit of query q is no article count: not an int, or negative
InvalidLimit(q) == ~q.limit_is_int \/ q.limit < 0

\* C17: a GET /news whose limit is not an int or is negative is answered
\* with a client error.
InvalidLimitRejected ==
    [][\A r \in Requests :
          (/\ response'.to = r
           /\ req'[r].op = "get"
           /\ InvalidLimit(req'[r]))
              => response'.status \in 400..499]_vars

\* the filters of query q name a region outside the four groups, or a
\* category or a language that no article of list carries
UnknownFilter(list, q) ==
    \/ q.region \notin {NoFilter, "swiss", "german", "international", "balkan"}
    \/ /\ q.category # NoFilter
       /\ \A i \in 1..Len(list) : \A c \in 1..Len(list[i].categories) :
             list[i].categories[c] # q.category
    \/ /\ q.language # NoFilter
       /\ \A i \in 1..Len(list) : list[i].language # q.language

\* C18: a GET /news with such a filter is answered 200 with no article and
\* total 0, and it is answered from the cache exactly when a request without
\* filters would be.
UnknownFiltersNotErrors ==
    [][\A r \in Requests :
          /\ (Answered(r) /\ UnknownFilter(articles', req'[r]))
                => /\ response'.status = 200
                   /\ response'.articles = << >>
                   /\ response'.total = 0
          /\ (pc[r] = "idle" /\ pc'[r] \in {"hit", "fetching"})
                => (pc'[r] = "hit"
                      <=> /\ last_updated # None
                          /\ now - last_updated < CacheDuration
                          /\ Len(articles) > 0
                          /\ ~req'[r].refresh)]_vars

\* C18 witness: a GET /news with a region outside the four groups was
\* answered from a cache that holds articles, with no article.
UnknownFiltersWitness ==
    \E r \in Requests :
        /\ pc[r] = "hit"
        /\ response.to = r
        /\ response.status = 200
        /\ response.filters.region = "mars"
        /\ response.total = 0
        /\ articles # << >>

\* keyword occurs in the lowercased text of title and summary: inside the
\* title, inside the summary, or across the single space that joins them
KeywordOccurs(keyword, title, summary) ==
    \/ Contains(title, keyword)
    \/ Contains(summary, keyword)
    \/ \E i \in 1..Len(keyword) :
          LET before == SubSeq(keyword, 1, i - 1)
              after == SubSeq(keyword, i + 1, Len(keyword))
          IN /\ keyword[i] = " "
             /\ Len(before) <= Len(title)
             /\ SubSeq(title, Len(title) - Len(before) + 1, Len(title)) = before
             /\ Len(after) <= Len(summary)
             /\ SubSeq(summary, 1, Len(after)) = after

\* the categories of the taxonomy one of whose keywords occurs in the article
Expected(a) ==
    LET title == Lower(a.title)
        summary == Lower(a.summary)
    IN {NEWS_CATEGORIES[c].id : c \in
           {c \in 1..Len(NEWS_CATEGORIES) :
               \E k \in 1..Len(NEWS_CATEGORIES[c].keywords) :
                   KeywordOccurs(NEWS_CATEGORIES[c].keywords[k], title, summary)}}

\* C19: the categories of every article a task built are non-empty; they hold
\* a category of the taxonomy exactly when one of its keywords occurs in the
\* lowercased title and summary; they are exactly ["general"] when no
\* category matches, and "general" never stands beside another label
Categorizer ==
    \A i \in 1..Len(Fetched) :
        LET a == Fetched[i]
            labels == {a.categories[k] : k \in 1..Len(a.categories)}
            expected == Expected(a)
        IN /\ a.categories # << >>
           /\ \A c \in 1..Len(NEWS_CATEGORIES) :
                 NEWS_CATEGORIES[c].id \in labels <=> NEWS_CATEGORIES[c].id \in expected
           /\ expected = {} => a.categories = <<"general">>
           /\ "general" \in labels => a.categories = <<"general">>

\* a pass stored an article whose title holds a keyword of one category and
\* whose summary holds a keyword of another
CategorizerWitness ==
    /\ \E i \in 1..Len(Fetched) : Fetched[i].categories = <<"vehicles", "charging">>
    /\ PassStored

\* the text clean_html is given for the title and for the summary of an entry
TitleInput(entry) == IF entry.has_title THEN entry.title ELSE KeinTitel
SummaryInput(entry) ==
    IF entry.has_summary THEN entry.summary
    ELSE IF entry.has_description THEN entry.description
    ELSE << >>

\* the text once tags are removed, entities unescaped and whitespace collapsed
Cleaned(text) == Strip(CollapseWs(Unescape(StripTags(text))))

Ellipsis == <<".", ".", ".">>

\* out is what the claim gives for the input text
Truncated(text, out) ==
    LET clean == Cleaned(text)
    IN /\ Len(out) <= CleanLimit + Len(Ellipsis)
       /\ text = << >> => out = << >>
       /\ Len(clean) <= CleanLimit => out = clean
       /\ Len(clean) > CleanLimit =>
             out = SubSeq(clean, 1, CleanLimit) \o Ellipsis

\* C20: the title and the summary of every article a task built are the
\* cleaned text of the entry, unchanged when it has at most 500 characters,
\* else its first 500 characters followed by "...": never more than 503
\* characters, and the empty string for an empty or missing text
TruncationBound ==
    \A s \in Sources :
        gathered[s].answer.kind = "ok" /\ gathered[s].result.state = "returned" =>
            \A i \in 1..Len(gathered[s].result.value) :
                LET entry == gathered[s].answer.entries[i]
                    a == gathered[s].result.value[i]
                IN /\ Truncated(TitleInput(entry), a.title)
                   /\ Truncated(SummaryInput(entry), a.summary)

\* a task built an article whose title was cut at 500 characters and whose
\* summary, of exactly 500 characters, was kept whole
TruncationBoundWitness ==
    \E s \in Sources :
        /\ gathered[s].result.state = "returned"
        /\ \E i \in 1..Len(gathered[s].result.value) :
              LET entry == gathered[s].answer.entries[i]
                  a == gathered[s].result.value[i]
              IN /\ Len(Cleaned(TitleInput(entry))) > CleanLimit
                 /\ Len(a.title) = CleanLimit + Len(Ellipsis)
                 /\ Len(Cleaned(SummaryInput(entry))) = CleanLimit
                 /\ Len(a.summary) = CleanLimit

\* the entries the settled tasks processed, each with the article built for it
Built ==
    UNION {{<<gathered[s].answer.entries[i], gathered[s].result.value[i]>> :
               i \in 1..Len(gathered[s].result.value)} :
           s \in {s \in Sources : gathered[s].result.state = "returned"}}

\* the articles of the settled tasks and of the cache
Known == {p[2] : p \in Built} \cup {articles[i] : i \in 1..Len(articles)}

\* C21: the id of an article is a function of its link alone: two articles
\* with the same link have the same id, whatever their source, title, summary
\* and timestamp, and every id is 12 hexadecimal characters
IdempotentIdentifier ==
    /\ \A a \in Known : \A b \in Known : a.url = b.url => a.id = b.id
    /\ \A a \in Known :
          /\ Len(a.id) = IdLen
          /\ \A k \in 1..Len(a.id) : a.id[k] \in HexDigits

\* two sources published the same link under different titles and summaries,
\* with different timestamps
IdempotentIdentifierWitness ==
    \E a \in Known : \E b \in Known :
        /\ a.url = b.url
        /\ a.source # b.source
        /\ a.title # b.title
        /\ a.summary # b.summary
        /\ a.published # b.published

\* the time tuples datetime(...) accepts
Convertible(parsed) == parsed \notin {Absent, Invalid}

\* the time the claim gives an entry fetched at time t
Resolved(entry, t) ==
    LET chosen == IF entry.published_parsed # Absent THEN entry.published_parsed
                  ELSE entry.updated_parsed
    IN IF Convertible(chosen) THEN Minutes(chosen) ELSE t

\* the times at which a task of the last stored pass can have read the
\* clock: one microsecond apart, the last one when the result was stored
FetchTimes == {last_updated - k : k \in 0..(EntriesRead - 1)}

\* C22: the published field of every article a task built is the entry's
\* published time when present, else its updated time when present, else the
\* time of the fetch, which is the time of the pass at which the task read
\* the clock for the entry; a time that cannot be converted gives the time of
\* the fetch, and an article is built in every case
TimestampResolution ==
    /\ \A p \in Built :
          \E t \in FetchTimes : p[2].published = IsoFormat(Resolved(p[1], t))
    /\ \A s \in Sources :
          gathered[s].answer.kind = "ok"
          /\ (\A i \in 1..Len(gathered[s].answer.entries) :
                 ~EntryRaises(gathered[s].answer.entries[i]))
          => /\ gathered[s].result.state = "returned"
             /\ Len(gathered[s].result.value) =
                    Min(Len(gathered[s].answer.entries), EntryLimit)

\* a task built an article for an entry whose published time is absent and
\* whose updated time cannot be converted
TimestampResolutionWitness ==
    \E p \in Built :
        /\ p[1].published_parsed = Absent
        /\ p[1].updated_parsed = Invalid
        /\ p[2].published = IsoFormat(last_updated)

\* a is b with some elements left out
RECURSIVE IsSubsequence(_, _)
IsSubsequence(a, b) ==
    IF a = << >> THEN TRUE
    ELSE IF b = << >> THEN FALSE
    ELSE IF Head(a) = Head(b) THEN IsSubsequence(Tail(a), Tail(b))
    ELSE IsSubsequence(a, Tail(b))

Stored == {articles[k] : k \in 1..Len(articles)}

\* C26: the stored result is the sorted concatenation of the fetched articles
\* with some articles left out, in the same order; an article left out has
\* the title key of a stored article that sorts at or before it; and every
\* title key that was fetched is stored
DedupLosesOnlyDuplicates ==
    PassStored =>
        LET sorted == SortDesc(Fetched)
            stored == Stored
            skey == [j \in 1..Len(sorted) |-> TitleKey(sorted[j])]
            akey == [k \in 1..Len(articles) |-> TitleKey(articles[k])]
        IN /\ IsSubsequence(articles, sorted)
           /\ \A j \in 1..Len(sorted) :
                 sorted[j] \notin stored =>
                     \E i \in 1..j : sorted[i] \in stored /\ skey[i] = skey[j]
           /\ \A j \in 1..Len(sorted) :
                 \E k \in 1..Len(articles) : akey[k] = skey[j]

\* the pass left out an article that sorts between two stored articles of
\* different title keys
DedupLosesOnlyDuplicatesWitness ==
    /\ PassStored
    /\ LET sorted == SortDesc(Fetched)
       IN \E i, j, k \in 1..Len(sorted) :
             /\ i < j /\ j < k
             /\ sorted[i] \in Stored
             /\ sorted[j] \notin Stored
             /\ sorted[k] \in Stored
             /\ ~SameKey(sorted[i], sorted[k])

\* C27: of two fetched articles with the same title key and the same
\* published value, the later one in registry order (source order, then
\* entry order) is not stored; the earlier one is, unless an article of that
\* title key that is newer, or as new and earlier still, was fetched
TieBreak ==
    PassStored =>
        LET fetched == Fetched
            stored == Stored
            key == [i \in 1..Len(fetched) |-> TitleKey(fetched[i])]
        IN \A i, j \in 1..Len(fetched) :
               i < j /\ key[i] = key[j]
               /\ fetched[i].published = fetched[j].published
               => /\ fetched[j] \notin stored
                  /\ (\A k \in 1..Len(fetched) :
                         key[k] = key[i] =>
                             \/ StrLess(fetched[k].published, fetched[i].published)
                             \/ fetched[k].published = fetched[i].published /\ i <= k)
                     => fetched[i] \in stored

\* two sources returned articles with the same title key and the same
\* published value, and the one of the first source is stored
TieBreakWitness ==
    /\ PassStored
    /\ \E i, j \in 1..Len(Fetched) :
          /\ i < j
          /\ SameKey(Fetched[i], Fetched[j])
          /\ Fetched[i].published = Fetched[j].published
          /\ Fetched[i].source # Fetched[j].source
          /\ Fetched[i] \in Stored

\* C28: a GET /news served from the cache leaves the stored list, content and
\* order, and last_updated as they were, whatever its region, language,
\* category and limit
ReadDoesNotMutate ==
    [][\A r \in Requests :
          pc[r] # "fetching" /\ pc'[r] = "hit" /\ response'.to = r
          => articles' = articles /\ last_updated' = last_updated]_vars

\* a cache hit whose filters and limit left out a cached article, while the
\* cache still holds every article
ReadDoesNotMutateWitness ==
    \E r \in Requests :
        /\ pc[r] = "hit"
        /\ response.to = r
        /\ req[r].region # NoFilter
        /\ req[r].limit = MaxLimit
        /\ Len(response.articles) < Len(articles)
        /\ Len(articles) = Len(Merge(GatherResults(gathered)))

\* the region groups of NEWS_FEEDS and the group a source is registered under
Groups == {NEWS_FEEDS[i].group : i \in 1..Len(NEWS_FEEDS)}
GroupOf(name) ==
    (CHOOSE feed \in {NEWS_FEEDS[i] : i \in 1..Len(NEWS_FEEDS)} : feed.name = name).group

\* C30: the region code of every source is in the allow-list of the group the
\* source is registered under and of no other group, and a GET /news with the
\* region g alone answers with exactly the cached articles of the sources
\* registered under g, in cache order
RegionGroupsPartition ==
    /\ \A i \in 1..Len(NEWS_FEEDS) : \A g \in Groups :
          NEWS_FEEDS[i].region \in region_codes(g) <=> NEWS_FEEDS[i].group = g
    /\ \A r \in Requests :
          /\ response.to = r
          /\ pc[r] \in {"hit", "refreshed"}
          /\ req[r].op = "get"
          /\ req[r].region \in Groups
          /\ req[r].category = NoFilter
          /\ req[r].language = NoFilter
          /\ req[r].limit = DefaultLimit
          => response.articles =
                 SelectSeq(articles, LAMBDA a : GroupOf(a.source) = req[r].region)

\* a GET /news with a region alone answered with some of the cached articles
\* and left out the others
RegionGroupsPartitionWitness ==
    \E r \in Requests :
        /\ response.to = r
        /\ pc[r] \in {"hit", "refreshed"}
        /\ req[r].op = "get"
        /\ req[r].region \in Groups
        /\ req[r].category = NoFilter
        /\ req[r].language = NoFilter
        /\ req[r].limit = DefaultLimit
        /\ response.articles # << >>
        /\ Len(response.articles) < Len(articles)

\* C24: a pass has one task per configured source, all pending when it
\* starts; a task settles once; the handler resumes, and the merge is stored,
\* only when every task has settled; and a task whose endpoint answered
\* returns its articles although a sibling failed
JoinBeforeMerge ==
    [][\A r \in Requests :
          /\ pc[r] # "fetching" /\ pc'[r] = "fetching"
             => DOMAIN results'[r] = Sources
                /\ \A s \in Sources : results'[r][s].result = Pending
          /\ \A s \in Sources :
                pc'[r] = "fetching" /\ results[r][s].result # Pending
                => results'[r][s] = results[r][s]
          /\ Completes(r)
             => /\ \A s \in Sources : results[r][s].result # Pending
                /\ gathered' = results[r]
                /\ \A s \in Sources :
                      results[r][s].answer.kind = "ok"
                      => /\ results[r][s].result.state = "returned"
                         /\ results[r][s].result.value # << >>]_vars

\* a pass was stored in which the task that settled first had failed and a
\* task that settled after it returned articles
JoinBeforeMergeWitness ==
    /\ PassStored
    /\ \E r \in Requests :
          /\ pc[r] = "refreshed"
          /\ Len(order[r]) = Len(all_feeds)
          /\ gathered[order[r][1]].answer.kind = "transport_error"
          /\ \E k \in 2..Len(order[r]) :
                /\ gathered[order[r][k]].answer.kind = "ok"
                /\ gathered[order[r][k]].result.value # << >>

\* C25: the result a pass stores is the merge of the article sequences of
\* the sources taken in registry order, in whatever order the tasks settled
CompletionOrderIndependence ==
    [][\A r \in Requests :
          Completes(r)
          => articles' = Merge([s \in Sources |-> results[r][s].result])]_vars

\* a pass was stored whose tasks had not settled in registry order, and two
\* sources had returned articles with the same published value
CompletionOrderWitness ==
    /\ PassStored
    /\ \E r \in Requests :
          /\ pc[r] = "refreshed"
          /\ Len(order[r]) = Len(all_feeds)
          /\ \E k \in 1..(Len(order[r]) - 1) : order[r][k] > order[r][k + 1]
    /\ \E i, j \in 1..Len(articles) :
          /\ i < j
          /\ articles[i].source # articles[j].source
          /\ articles[i].published = articles[j].published

\* C29: whatever passes overlap, a pass that completes stores its own result
\* and the time of its completion, no other step changes the cache, and
\* last_updated never decreases: the cache holds the result of the pass that
\* completed last, also when that pass started first
OverlappingRefreshes ==
    [][/\ last_updated' >= last_updated
       /\ IF \E r \in Requests : Completes(r)
          THEN /\ articles' = Merge([s \in Sources |-> gathered'[s].result])
               /\ last_updated' = now
          ELSE articles' = articles /\ last_updated' = last_updated]_vars

\* two passes overlap: the pass of q, in which every source failed, has just
\* completed while the pass of r is in flight, and the cache holds its empty
\* result and its completion time
OverlappingRefreshesWitness ==
    \E r, q \in Requests :
        /\ r # q
        /\ pc[r] = "fetching"
        /\ pc[q] = "refreshed"
        /\ response.to = q
        /\ last_updated = now
        /\ now > 0
        /\ articles = << >>

\* C23: a task returns at most 10 articles, the entries for which it built no
\* article are the oldest of its feed, and the stored result has at most 10
\* articles of any one source
PerSourceBound ==
    /\ \A s \in Sources :
          gathered[s].answer.kind = "ok" /\ gathered[s].result.state = "returned" =>
              LET entries == gathered[s].answer.entries
                  value == gathered[s].result.value
              IN /\ Len(value) <= EntryLimit
                 /\ \A i \in 1..Len(value) : \A j \in (Len(value) + 1)..Len(entries) :
                       Resolved(entries[j], last_updated) <= Resolved(entries[i], last_updated)
    /\ \A s \in Sources :
          Cardinality({k \in 1..Len(articles) : articles[k].source = all_feeds[s].name})
              <= EntryLimit

====
